---- MODULE Spec2Model ----
(***************************************************************************)
(* Model of src/min_max_heap.cpp: class MinMaxHeap, an array-backed        *)
(* min-max heap (double-ended priority queue).                             *)
(*                                                                         *)
(* The backing std::vector<int> is the sequence `data`.  The C++ code      *)
(* indexes from 0; every operator below takes and returns 0-based indices  *)
(* exactly as the code does, and At(d, i) reads slot i of the vector.      *)
(* Only comparisons and copies are applied to the stored ints, so the      *)
(* width of int plays no part.                                             *)
(***************************************************************************)
EXTENDS Integers, Sequences, FiniteSets, Bags, TLC

\* Values offered to insert are 1..MaxVal.
MaxVal == 3

\* insert is offered at most MaxInserts times in one run of the program.
MaxInserts == 11

\* a heap built with DeepLen inserts has its next free slot DeepLen on the
\* fifth level, whose grandparent has a grandparent of its own
DeepLen == 15

DeepInserts == 2

Values == 1..MaxVal

VARIABLES
    data,     \* MinMaxHeap::data, the backing vector
    op,       \* name of the public member function called last ("init" before any call)
    ret,      \* what that call returned: an int for getMin/getMax/extractMin/extractMax,
              \* a BOOLEAN for empty, 0 for a void call or a call that threw
    thrown,   \* TRUE iff that call threw std::out_of_range
    held,     \* history: bag of inserted values minus values returned by extractions
    nIns,     \* history: number of insert calls so far
    nExt      \* history: number of extractMin/extractMax calls that returned

heapVars == <<data, op, ret, thrown, held, nIns, nExt>>

-----------------------------------------------------------------------------
(* The repository's other programs.  Each is a standalone executable with  *)
(* its own state; a run of one program leaves the state of the others      *)
(* untouched.                                                              *)

VARIABLES
    hashMap,   \* hash_map.cpp: the HashMap object, [buckets, count]
    hmCall,    \* the HashMap member function called last, its arguments and results
    hmModel    \* history: the map the calls so far describe (present key -> last value put)

hashMapVars == <<hashMap, hmCall, hmModel>>

VARIABLES
    queue,     \* queue.cpp: the Queue object, [data, capacity, headIndex, tailIndex, count]
    qCall,     \* the Queue member function called last and its result
    qIn,       \* history: the values enqueued so far, in order
    qOut       \* history: the values returned by dequeue so far, in order

queueVars == <<queue, qCall, qIn, qOut>>

VARIABLES
    stack,     \* stack.cpp: the Stack object, [data, capacity, topIndex]
    sCall,     \* the Stack member function called last and its result
    sModel,    \* history: the values pushed and not yet popped, oldest first
    sPushes,   \* history: number of push calls so far
    sPops      \* history: number of pop calls that returned

stackVars == <<stack, sCall, sModel, sPushes, sPops>>

VARIABLES
    list,      \* linked_list.cpp: the SinglyLinkedList object, [head, tail, length]
    listNodes, \* the Node objects allocated and not deleted: address -> [value, next]
    lCall      \* the SinglyLinkedList member function called last and its result

listVars == <<list, listNodes, lCall>>

VARIABLES
    root,      \* bst_with_duplicates.cpp: MultisetBST::root, an address or nullptr
    bstNodes,  \* the Node objects allocated and not deleted:
               \* address -> [key, count, left, right]
    bstCall,   \* the MultisetBST member function called last, its argument, and
               \* whether it replaced a node by its in-order successor
    bstModel   \* history: the multiset the calls so far describe (key -> occurrences)

bstVars == <<root, bstNodes, bstCall, bstModel>>

VARIABLES
    adjacency, \* graph_traversal.cpp: Graph::adjacency, vertex -> sequence of neighbors
    trav       \* the traversal in progress or returned last: its locals visited and
               \* stack/queue, what it wrote to std::cout, and whether it returned

graphVars == <<adjacency, trav>>

VARIABLES
    sorted,    \* binary_search.cpp: the vector main searches in
    bsCall     \* the search function called last, its target and its result

searchVars == <<sorted, bsCall>>

\* state of every program other than min_max_heap.cpp
notHeap == <<hashMapVars, queueVars, stackVars, listVars, bstVars, graphVars, searchVars>>

\* state of every program other than hash_map.cpp
notHashMap == <<heapVars, queueVars, stackVars, listVars, bstVars, graphVars, searchVars>>

\* state of every program other than queue.cpp
notQueue == <<heapVars, hashMapVars, stackVars, listVars, bstVars, graphVars, searchVars>>

\* state of every program other than stack.cpp
notStack == <<heapVars, hashMapVars, queueVars, listVars, bstVars, graphVars, searchVars>>

\* state of every program other than linked_list.cpp
notList == <<heapVars, hashMapVars, queueVars, stackVars, bstVars, graphVars, searchVars>>

\* state of every program other than bst_with_duplicates.cpp
notBst == <<heapVars, hashMapVars, queueVars, stackVars, listVars, graphVars, searchVars>>

\* state of every program other than graph_traversal.cpp
notGraph == <<heapVars, hashMapVars, queueVars, stackVars, listVars, bstVars, searchVars>>

\* state of every program other than binary_search.cpp
notSearch == <<heapVars, hashMapVars, queueVars, stackVars, listVars, bstVars, graphVars>>

vars == <<heapVars, hashMapVars, queueVars, stackVars, listVars, bstVars, graphVars, searchVars>>

\* HashMap before any constructor has run (the default member initializers)
NoHashMap == [buckets |-> <<>>, count |-> 0]

NoCall == [op |-> "none", returns |-> TRUE]

HashMapIdle ==
    /\ hashMap = NoHashMap
    /\ hmCall = NoCall
    /\ hmModel = <<>>

\* Queue before any constructor has run (the default member initializers)
NoQueue == [data |-> <<>>, capacity |-> 0, headIndex |-> 0, tailIndex |-> 0, count |-> 0]

QueueIdle ==
    /\ queue = NoQueue
    /\ qCall = NoCall
    /\ qIn = <<>>
    /\ qOut = <<>>

\* Stack before any constructor has run (the default member initializers)
NoStack == [data |-> <<>>, capacity |-> 0, topIndex |-> 0]

StackIdle ==
    /\ stack = NoStack
    /\ sCall = NoCall
    /\ sModel = <<>>
    /\ sPushes = 0
    /\ sPops = 0

\* the null pointer; the addresses of objects are 1, 2, ...
nullptr == 0

\* SinglyLinkedList as its default member initializers leave it
NoList == [head |-> nullptr, tail |-> nullptr, length |-> 0]

ListIdle ==
    /\ list = NoList
    /\ listNodes = <<>>
    /\ lCall = NoCall

\* MultisetBST before main has called a member function
BstIdle ==
    /\ root = nullptr
    /\ bstNodes = <<>>
    /\ bstCall = NoCall
    /\ bstModel = <<>>

NoTraversal == [op |-> "none", returns |-> TRUE]

\* Graph before main has called a member function
GraphIdle ==
    /\ adjacency = <<>>
    /\ trav = NoTraversal

\* binary_search.cpp before main has built its vector
SearchIdle ==
    /\ sorted = <<>>
    /\ bsCall = NoCall

-----------------------------------------------------------------------------
(* Vector access helpers *)

\* data[i] for a 0-based index i
At(d, i) == d[i + 1]

\* std::swap(data[i], data[j])
Swap(d, i, j) == [d EXCEPT ![i + 1] = d[j + 1], ![j + 1] = d[i + 1]]

\* PopBack with the pop_back() call left out
PopBack_Skipped(d) == d

\* data.pop_back()
PopBack(d) == SubSeq(d, 1, Len(d) - 1)

\* ReplaceWithBackAndPop with the copy of data.back() into slot i left out
ReplaceWithBackAndPop_NoCopy(d, i) == SubSeq(d, 1, Len(d) - 1)

\* data[i] = data.back(); data.pop_back();   (both extract functions)
ReplaceWithBackAndPop(d, i) == PopBack([d EXCEPT ![i + 1] = d[Len(d)]])

\* std::min on size_t
MinOf2(a, b) == IF b < a THEN b ELSE a

\* std::max on int: returns the first argument unless it is less than the second
MaxOf2(a, b) == IF a < b THEN b ELSE a

-----------------------------------------------------------------------------
(* Index arithmetic.  parent is only ever called with index >= 1 in the    *)
(* code (bubbleUp returns at 0, the grandparent loops need index >= 3, and *)
(* trickle-down applies it to descendants), so size_t wrap-around of       *)
(* index - 1 never happens.                                                *)

parent(index) == (index - 1) \div 2

grandparent(index) == parent(parent(index))

\* the depth loop stepping to index / 2 where the code steps to parent(index)
RECURSIVE depthOf_HalvesIndex(_)
depthOf_HalvesIndex(index) ==
    IF index > 0 THEN 1 + depthOf_HalvesIndex(index \div 2) ELSE 0

RECURSIVE depthOf(_)
depthOf(index) == IF index > 0 THEN 1 + depthOf(parent(index)) ELSE 0

isMinLevel(index) == depthOf(index) % 2 = 0

-----------------------------------------------------------------------------
(* Bubble-up *)

RECURSIVE bubbleUpMin(_, _)
bubbleUpMin(d, index) ==
    IF index >= 3
    THEN LET gp == grandparent(index) IN
         IF At(d, index) < At(d, gp)
         THEN bubbleUpMin(Swap(d, index, gp), gp)
         ELSE d
    ELSE d

RECURSIVE bubbleUpMax(_, _)
bubbleUpMax(d, index) ==
    IF index >= 3
    THEN LET gp == grandparent(index) IN
         IF At(d, index) > At(d, gp)
         THEN bubbleUpMax(Swap(d, index, gp), gp)
         ELSE d
    ELSE d

\* bubbleUp that never compares the new value with its parent
bubbleUp_NoParentSwap(d, index) ==
    IF index = 0 THEN d
    ELSE IF isMinLevel(index) THEN bubbleUpMin(d, index) ELSE bubbleUpMax(d, index)

\* bubbleUp that, after the swap with the parent, keeps climbing along the
\* level rule of index where the code takes the rule of the parent
bubbleUp_SamePolarityAfterSwap(d, index) ==
    IF index = 0 THEN d
    ELSE LET p == parent(index) IN
         IF isMinLevel(index)
         THEN IF At(d, index) > At(d, p)
              THEN bubbleUpMin(Swap(d, index, p), p)
              ELSE bubbleUpMin(d, index)
         ELSE IF At(d, index) < At(d, p)
              THEN bubbleUpMax(Swap(d, index, p), p)
              ELSE bubbleUpMax(d, index)

bubbleUp(d, index) ==
    IF index = 0 THEN d
    ELSE LET p == parent(index) IN
         IF isMinLevel(index)
         THEN IF At(d, index) > At(d, p)
              THEN bubbleUpMax(Swap(d, index, p), p)
              ELSE bubbleUpMin(d, index)
         ELSE IF At(d, index) < At(d, p)
              THEN bubbleUpMin(Swap(d, index, p), p)
              ELSE bubbleUpMax(d, index)

\* The std::swap calls of bubbleUpMin(index) on d, in order: each entry is
\* <<index, gp>>, the two slots the call exchanges.
RECURSIVE bubbleUpMinSwaps(_, _)
bubbleUpMinSwaps(d, index) ==
    IF index >= 3
    THEN LET gp == grandparent(index) IN
         IF At(d, index) < At(d, gp)
         THEN <<<<index, gp>>>> \o bubbleUpMinSwaps(Swap(d, index, gp), gp)
         ELSE <<>>
    ELSE <<>>

\* The std::swap calls of bubbleUpMax(index) on d, in order.
RECURSIVE bubbleUpMaxSwaps(_, _)
bubbleUpMaxSwaps(d, index) ==
    IF index >= 3
    THEN LET gp == grandparent(index) IN
         IF At(d, index) > At(d, gp)
         THEN <<<<index, gp>>>> \o bubbleUpMaxSwaps(Swap(d, index, gp), gp)
         ELSE <<>>
    ELSE <<>>

\* The std::swap calls of bubbleUp(index) on d, in order: the swap with the
\* parent, when made, followed by those of the loop it hands over to.
bubbleUpSwaps(d, index) ==
    IF index = 0 THEN <<>>
    ELSE LET p == parent(index) IN
         IF isMinLevel(index)
         THEN IF At(d, index) > At(d, p)
              THEN <<<<index, p>>>> \o bubbleUpMaxSwaps(Swap(d, index, p), p)
              ELSE bubbleUpMinSwaps(d, index)
         ELSE IF At(d, index) < At(d, p)
              THEN <<<<index, p>>>> \o bubbleUpMinSwaps(Swap(d, index, p), p)
              ELSE bubbleUpMaxSwaps(d, index)

-----------------------------------------------------------------------------
(* Descendant scan *)

\* the for loop of minDescendant: i runs from i to lastDescendant
RECURSIVE minScan(_, _, _, _)
minScan(d, i, lastDescendant, minIdx) ==
    IF i <= lastDescendant
    THEN minScan(d, i + 1, lastDescendant,
                 IF At(d, i) < At(d, minIdx) THEN i ELSE minIdx)
    ELSE minIdx

minDescendant(d, index) ==
    LET firstChild == 2 * index + 1 IN
    IF firstChild >= Len(d) THEN index
    ELSE minScan(d, firstChild, MinOf2(Len(d) - 1, 2 * firstChild + 2), firstChild)

\* the for loop of maxDescendant
RECURSIVE maxScan(_, _, _, _)
maxScan(d, i, lastDescendant, maxIdx) ==
    IF i <= lastDescendant
    THEN maxScan(d, i + 1, lastDescendant,
                 IF At(d, i) > At(d, maxIdx) THEN i ELSE maxIdx)
    ELSE maxIdx

maxDescendant(d, index) ==
    LET firstChild == 2 * index + 1 IN
    IF firstChild >= Len(d) THEN index
    ELSE maxScan(d, firstChild, MinOf2(Len(d) - 1, 2 * firstChild + 2), firstChild)

isGrandchild(d, index, descendant) ==
    IF descendant = index THEN FALSE
    ELSE LET childStart == 2 * index + 1
             childEnd   == 2 * index + 2
         IN  IF descendant >= Len(d) THEN FALSE
             ELSE IF descendant = childStart \/ descendant = childEnd THEN FALSE
             ELSE LET p == parent(descendant) IN p = childStart \/ p = childEnd

-----------------------------------------------------------------------------
(* Trickle-down *)

\* trickleDownMin without the follow-up swap of the grandchild with its parent
RECURSIVE trickleDownMin_NoParentFix(_, _)
trickleDownMin_NoParentFix(d, index) ==
    LET m == minDescendant(d, index) IN
    IF m = index THEN d
    ELSE IF isGrandchild(d, index, m)
         THEN IF At(d, m) < At(d, index)
              THEN trickleDownMin_NoParentFix(Swap(d, m, index), m)
              ELSE d
         ELSE IF At(d, m) < At(d, index)
              THEN Swap(d, m, index)
              ELSE d

RECURSIVE trickleDownMin(_, _)
trickleDownMin(d, index) ==
    LET m == minDescendant(d, index) IN
    IF m = index THEN d
    ELSE IF isGrandchild(d, index, m)
         THEN IF At(d, m) < At(d, index)
              THEN LET d1 == Swap(d, m, index)
                       parentIdx == parent(m)
                       d2 == IF At(d1, m) > At(d1, parentIdx)
                             THEN Swap(d1, m, parentIdx)
                             ELSE d1
                   IN  trickleDownMin(d2, m)
              ELSE d
         ELSE IF At(d, m) < At(d, index)
              THEN Swap(d, m, index)
              ELSE d

RECURSIVE trickleDownMax(_, _)
trickleDownMax(d, index) ==
    LET m == maxDescendant(d, index) IN
    IF m = index THEN d
    ELSE IF isGrandchild(d, index, m)
         THEN IF At(d, m) > At(d, index)
              THEN LET d1 == Swap(d, m, index)
                       parentIdx == parent(m)
                       d2 == IF At(d1, m) < At(d1, parentIdx)
                             THEN Swap(d1, m, parentIdx)
                             ELSE d1
                   IN  trickleDownMax(d2, m)
              ELSE d
         ELSE IF At(d, m) > At(d, index)
              THEN Swap(d, m, index)
              ELSE d

trickleDown(d, index) ==
    IF isMinLevel(index) THEN trickleDownMin(d, index) ELSE trickleDownMax(d, index)

\* trickleDownMin whose loop, after a swap with a grandchild, runs again on
\* the same index where the code goes on from m
RECURSIVE trickleDownMinLog_StaysAtIndex(_, _)
trickleDownMinLog_StaysAtIndex(d, index) ==
    LET m == minDescendant(d, index)
        Entry0(gc, sw, fx, out, go) ==
            [index |-> index, m |-> m, at |-> d, grandchild |-> gc,
             swapped |-> sw, fixed |-> fx, out |-> out, continues |-> go]
    IN
    IF m = index THEN <<Entry0(FALSE, FALSE, FALSE, d, FALSE)>>
    ELSE IF isGrandchild(d, index, m)
         THEN IF At(d, m) < At(d, index)
              THEN LET d1 == Swap(d, m, index)
                       parentIdx == parent(m)
                       fx == At(d1, m) > At(d1, parentIdx)
                       d2 == IF fx THEN Swap(d1, m, parentIdx) ELSE d1
                   IN  <<Entry0(TRUE, TRUE, fx, d2, TRUE)>>
                           \o trickleDownMinLog_StaysAtIndex(d2, index)
              ELSE <<Entry0(TRUE, FALSE, FALSE, d, FALSE)>>
         ELSE IF At(d, m) < At(d, index)
              THEN <<Entry0(FALSE, TRUE, FALSE, Swap(d, m, index), FALSE)>>
              ELSE <<Entry0(FALSE, FALSE, FALSE, d, FALSE)>>

\* The iterations of the while loop of trickleDownMin(index) on d, in order.
\* Each entry records the iteration: index and the array at the loop head,
\* the slot m minDescendant returned, whether isGrandchild held, whether m
\* and index were swapped, whether m and parent(m) were swapped after that,
\* the array the iteration leaves, and whether the loop goes on from m.
RECURSIVE trickleDownMinLog(_, _)
trickleDownMinLog(d, index) ==
    LET m == minDescendant(d, index)
        Entry0(gc, sw, fx, out, go) ==
            [index |-> index, m |-> m, at |-> d, grandchild |-> gc,
             swapped |-> sw, fixed |-> fx, out |-> out, continues |-> go]
    IN
    IF m = index THEN <<Entry0(FALSE, FALSE, FALSE, d, FALSE)>>
    ELSE IF isGrandchild(d, index, m)
         THEN IF At(d, m) < At(d, index)
              THEN LET d1 == Swap(d, m, index)
                       parentIdx == parent(m)
                       fx == At(d1, m) > At(d1, parentIdx)
                       d2 == IF fx THEN Swap(d1, m, parentIdx) ELSE d1
                   IN  <<Entry0(TRUE, TRUE, fx, d2, TRUE)>> \o trickleDownMinLog(d2, m)
              ELSE <<Entry0(TRUE, FALSE, FALSE, d, FALSE)>>
         ELSE IF At(d, m) < At(d, index)
              THEN <<Entry0(FALSE, TRUE, FALSE, Swap(d, m, index), FALSE)>>
              ELSE <<Entry0(FALSE, FALSE, FALSE, d, FALSE)>>

\* The iterations of the while loop of trickleDownMax(index) on d, in order.
RECURSIVE trickleDownMaxLog(_, _)
trickleDownMaxLog(d, index) ==
    LET m == maxDescendant(d, index)
        Entry0(gc, sw, fx, out, go) ==
            [index |-> index, m |-> m, at |-> d, grandchild |-> gc,
             swapped |-> sw, fixed |-> fx, out |-> out, continues |-> go]
    IN
    IF m = index THEN <<Entry0(FALSE, FALSE, FALSE, d, FALSE)>>
    ELSE IF isGrandchild(d, index, m)
         THEN IF At(d, m) > At(d, index)
              THEN LET d1 == Swap(d, m, index)
                       parentIdx == parent(m)
                       fx == At(d1, m) < At(d1, parentIdx)
                       d2 == IF fx THEN Swap(d1, m, parentIdx) ELSE d1
                   IN  <<Entry0(TRUE, TRUE, fx, d2, TRUE)>> \o trickleDownMaxLog(d2, m)
              ELSE <<Entry0(TRUE, FALSE, FALSE, d, FALSE)>>
         ELSE IF At(d, m) > At(d, index)
              THEN <<Entry0(FALSE, TRUE, FALSE, Swap(d, m, index), FALSE)>>
              ELSE <<Entry0(FALSE, FALSE, FALSE, d, FALSE)>>

\* The loop iterations trickleDown(index) runs on d.
trickleDownLog(d, index) ==
    IF isMinLevel(index) THEN trickleDownMinLog(d, index) ELSE trickleDownMaxLog(d, index)

-----------------------------------------------------------------------------
(* Array accesses and index arithmetic.  For each function, the set of the *)
(* accesses it makes on array d: an element access data[arg] made while    *)
(* the vector has size elements (front() is data[0], back() is             *)
(* data[size - 1]), or a call parent(arg) or grandparent(arg).             *)

Access(i, n) == [kind |-> "data", arg |-> i, size |-> n]

ParentCall(i) == [kind |-> "parent", arg |-> i, size |-> 0]

\* grandparent(index) evaluates parent(index) and parent of its result
GrandparentCalls(i) ==
    {[kind |-> "grandparent", arg |-> i, size |-> 0], ParentCall(i), ParentCall(parent(i))}

\* isMinLevel: parent(index) is called while index > 0
RECURSIVE isMinLevelCalls(_)
isMinLevelCalls(index) ==
    IF index > 0 THEN {ParentCall(index)} \cup isMinLevelCalls(parent(index)) ELSE {}

\* the scan with lastDescendant left at 2 * firstChild + 2, not cut to size - 1
scanAccesses_NoClamp(d, index) ==
    LET firstChild == 2 * index + 1 IN
    IF firstChild >= Len(d) THEN {}
    ELSE {Access(i, Len(d)) : i \in firstChild..(2 * firstChild + 2)}

\* minDescendant and maxDescendant: data[i] and data[minIdx] (data[maxIdx])
\* for i from firstChild to lastDescendant, minIdx among the i passed
scanAccesses(d, index) ==
    LET firstChild == 2 * index + 1 IN
    IF firstChild >= Len(d) THEN {}
    ELSE {Access(i, Len(d)) : i \in firstChild..MinOf2(Len(d) - 1, 2 * firstChild + 2)}

\* isGrandchild: parent(descendant) is called once the three early returns
\* are passed
isGrandchildCalls(d, index, descendant) ==
    IF descendant = index THEN {}
    ELSE IF descendant >= Len(d) THEN {}
    ELSE IF descendant = 2 * index + 1 \/ descendant = 2 * index + 2 THEN {}
    ELSE {ParentCall(descendant)}

\* one iteration e of the loop of trickleDownMin or trickleDownMax
trickleIterationAccesses(e) ==
    LET n == Len(e.at) IN
    scanAccesses(e.at, e.index)
    \cup (IF e.m = e.index THEN {}
          ELSE isGrandchildCalls(e.at, e.index, e.m)
               \cup {Access(e.m, n), Access(e.index, n)}
               \cup (IF e.grandchild /\ e.swapped
                     THEN {ParentCall(e.m), Access(e.m, n), Access(parent(e.m), n)}
                     ELSE {}))

trickleDownAccesses(d, index) ==
    LET log == trickleDownLog(d, index) IN
    isMinLevelCalls(index)
    \cup UNION {trickleIterationAccesses(log[k]) : k \in 1..Len(log)}

\* bubbleUp(index): nothing at index 0; otherwise parent(index), the level
\* test, the comparison with the parent, and for every slot q the loop of
\* bubbleUpMin or bubbleUpMax stands on with q >= 3, grandparent(q) and the
\* comparison of data[q] with data[gp]
bubbleUpAccesses(d, index) ==
    IF index = 0 THEN {}
    ELSE LET n  == Len(d)
             p  == parent(index)
             tr == bubbleUpSwaps(d, index)
             parentSwap == tr # <<>> /\ tr[1] = <<index, p>>
             loopSlots == {IF parentSwap THEN p ELSE index}
                          \cup {tr[k][2] : k \in (IF parentSwap THEN 2 ELSE 1)..Len(tr)}
         IN  {ParentCall(index), Access(index, n), Access(p, n)}
             \cup isMinLevelCalls(index)
             \cup UNION {IF q >= 3
                         THEN GrandparentCalls(q)
                              \cup {Access(q, n), Access(grandparent(q), n)}
                         ELSE {} : q \in loopSlots}

insertAccesses(d, value) ==
    LET d0 == Append(d, value) IN bubbleUpAccesses(d0, Len(d0) - 1)

getMinAccesses(d) == IF d = <<>> THEN {} ELSE {Access(0, Len(d))}

getMaxAccesses(d) ==
    IF d = <<>> THEN {}
    ELSE IF Len(d) = 1 THEN {Access(0, 1)}
    ELSE IF Len(d) = 2 THEN {Access(1, 2)}
    ELSE {Access(1, Len(d)), Access(2, Len(d))}

extractMinAccesses(d) ==
    IF d = <<>> THEN {}
    ELSE LET popped == ReplaceWithBackAndPop(d, 0) IN
         {Access(0, Len(d)), Access(Len(d) - 1, Len(d))}
         \cup (IF popped # <<>> THEN trickleDownAccesses(popped, 0) ELSE {})

extractMaxAccesses(d) ==
    IF d = <<>> THEN {}
    ELSE IF Len(d) = 1 THEN {Access(0, 1)}
    ELSE LET n == Len(d)
             maxIndex == IF n > 2 /\ At(d, 2) > At(d, 1) THEN 2 ELSE 1
             popped == ReplaceWithBackAndPop(d, maxIndex)
         IN  (IF n > 2 THEN {Access(2, n), Access(1, n)} ELSE {})
             \cup {Access(maxIndex, n), Access(n - 1, n)}
             \cup (IF maxIndex < Len(popped) THEN trickleDownAccesses(popped, maxIndex)
                   ELSE {})

-----------------------------------------------------------------------------
(* Public member functions, one action each *)

\* MinMaxHeap heap;  (default construction: the vector is empty)
HeapInit ==
    /\ data = <<>>
    /\ op = "init"
    /\ ret = 0
    /\ thrown = FALSE
    /\ held = EmptyBag
    /\ nIns = 0
    /\ nExt = 0

\* the cap on the inserts of one run: MaxInserts from the empty heap, and
\* DeepInserts more on a heap that was built with DeepLen inserts
InsertsLeft ==
    \/ nIns < MaxInserts
    \/ nIns >= DeepLen /\ nIns < DeepLen + DeepInserts

insert(value) ==
    /\ InsertsLeft
    /\ data' = bubbleUp(Append(data, value), Len(data))
    /\ op' = "insert"
    /\ ret' = 0
    /\ thrown' = FALSE
    /\ held' = held (+) SetToBag({value})
    /\ nIns' = nIns + 1
    /\ UNCHANGED nExt
    /\ UNCHANGED notHeap

\* getMin that removes the front element it returns
getMin_Consuming ==
    /\ op' = "getMin"
    /\ IF data = <<>>
       THEN thrown' = TRUE /\ ret' = 0 /\ UNCHANGED data
       ELSE thrown' = FALSE /\ ret' = At(data, 0) /\ data' = Tail(data)
    /\ UNCHANGED <<held, nIns, nExt>>
    /\ UNCHANGED notHeap

getMin ==
    /\ op' = "getMin"
    /\ IF data = <<>>
       THEN thrown' = TRUE /\ ret' = 0
       ELSE thrown' = FALSE /\ ret' = At(data, 0)
    /\ UNCHANGED <<data, held, nIns, nExt>>
    /\ UNCHANGED notHeap

\* getMax without the data.empty() check: an empty heap is handled like size 1
getMax_NoEmptyCheck ==
    /\ op' = "getMax"
    /\ thrown' = FALSE
    /\ ret' = IF Len(data) = 0 THEN 0
              ELSE IF Len(data) = 1 THEN At(data, 0)
              ELSE IF Len(data) = 2 THEN At(data, 1)
              ELSE MaxOf2(At(data, 1), At(data, 2))
    /\ UNCHANGED <<data, held, nIns, nExt>>
    /\ UNCHANGED notHeap

\* getMax that returns data[1] whenever there are two or more elements,
\* without comparing it with data[2]
getMax_ReturnsSlot1 ==
    /\ op' = "getMax"
    /\ IF data = <<>>
       THEN thrown' = TRUE /\ ret' = 0
       ELSE /\ thrown' = FALSE
            /\ ret' = IF Len(data) = 1 THEN At(data, 0) ELSE At(data, 1)
    /\ UNCHANGED <<data, held, nIns, nExt>>
    /\ UNCHANGED notHeap

getMax ==
    /\ op' = "getMax"
    /\ IF data = <<>>
       THEN thrown' = TRUE /\ ret' = 0
       ELSE /\ thrown' = FALSE
            /\ ret' = IF Len(data) = 1 THEN At(data, 0)
                      ELSE IF Len(data) = 2 THEN At(data, 1)
                      ELSE MaxOf2(At(data, 1), At(data, 2))
    /\ UNCHANGED <<data, held, nIns, nExt>>
    /\ UNCHANGED notHeap

\* extractMin with the emptiness check placed after the pop_back()
extractMin_CheckAfterPop ==
    /\ op' = "extractMin"
    /\ IF Len(data) <= 1
       THEN /\ thrown' = TRUE
            /\ ret' = 0
            /\ data' = <<>>
            /\ UNCHANGED <<held, nExt>>
       ELSE LET minValue == At(data, 0)
                popped   == ReplaceWithBackAndPop(data, 0)
            IN  /\ data' = trickleDown(popped, 0)
                /\ thrown' = FALSE
                /\ ret' = minValue
                /\ held' = held (-) SetToBag({minValue})
                /\ nExt' = nExt + 1
    /\ UNCHANGED nIns
    /\ UNCHANGED notHeap

\* extractMin whose pop_back() is skipped when the heap holds a single element
extractMin_KeepsSole ==
    /\ op' = "extractMin"
    /\ IF data = <<>>
       THEN /\ thrown' = TRUE
            /\ ret' = 0
            /\ UNCHANGED <<data, held, nExt>>
       ELSE LET minValue == At(data, 0)
                popped   == IF Len(data) = 1 THEN data ELSE ReplaceWithBackAndPop(data, 0)
            IN  /\ data' = IF popped # <<>> THEN trickleDown(popped, 0) ELSE popped
                /\ thrown' = FALSE
                /\ ret' = minValue
                /\ held' = held (-) SetToBag({minValue})
                /\ nExt' = nExt + 1
    /\ UNCHANGED nIns
    /\ UNCHANGED notHeap

extractMin ==
    /\ op' = "extractMin"
    /\ IF data = <<>>
       THEN /\ thrown' = TRUE
            /\ ret' = 0
            /\ UNCHANGED <<data, held, nExt>>
       ELSE LET minValue == At(data, 0)
                popped   == ReplaceWithBackAndPop(data, 0)
            IN  /\ data' = IF popped # <<>> THEN trickleDown(popped, 0) ELSE popped
                /\ thrown' = FALSE
                /\ ret' = minValue
                /\ held' = held (-) SetToBag({minValue})
                /\ nExt' = nExt + 1
    /\ UNCHANGED nIns
    /\ UNCHANGED notHeap

\* extractMax that takes slot 2 also when data[2] equals data[1]
extractMax_TieTakesSlot2 ==
    /\ op' = "extractMax"
    /\ IF data = <<>>
       THEN /\ thrown' = TRUE
            /\ ret' = 0
            /\ UNCHANGED <<data, held, nExt>>
       ELSE IF Len(data) = 1
       THEN /\ data' = PopBack(data)
            /\ thrown' = FALSE
            /\ ret' = At(data, 0)
            /\ held' = held (-) SetToBag({At(data, 0)})
            /\ nExt' = nExt + 1
       ELSE LET maxIndex == IF Len(data) > 2 /\ At(data, 2) >= At(data, 1) THEN 2 ELSE 1
                maxValue == At(data, maxIndex)
                popped   == ReplaceWithBackAndPop(data, maxIndex)
            IN  /\ data' = IF maxIndex < Len(popped) THEN trickleDown(popped, maxIndex)
                           ELSE popped
                /\ thrown' = FALSE
                /\ ret' = maxValue
                /\ held' = held (-) SetToBag({maxValue})
                /\ nExt' = nExt + 1
    /\ UNCHANGED nIns
    /\ UNCHANGED notHeap

extractMax ==
    /\ op' = "extractMax"
    /\ IF data = <<>>
       THEN /\ thrown' = TRUE
            /\ ret' = 0
            /\ UNCHANGED <<data, held, nExt>>
       ELSE IF Len(data) = 1
       THEN /\ data' = PopBack(data)
            /\ thrown' = FALSE
            /\ ret' = At(data, 0)
            /\ held' = held (-) SetToBag({At(data, 0)})
            /\ nExt' = nExt + 1
       ELSE LET maxIndex == IF Len(data) > 2 /\ At(data, 2) > At(data, 1) THEN 2 ELSE 1
                maxValue == At(data, maxIndex)
                popped   == ReplaceWithBackAndPop(data, maxIndex)
            IN  /\ data' = IF maxIndex < Len(popped) THEN trickleDown(popped, maxIndex)
                           ELSE popped
                /\ thrown' = FALSE
                /\ ret' = maxValue
                /\ held' = held (-) SetToBag({maxValue})
                /\ nExt' = nExt + 1
    /\ UNCHANGED nIns
    /\ UNCHANGED notHeap

empty ==
    /\ op' = "empty"
    /\ ret' = (data = <<>>)
    /\ thrown' = FALSE
    /\ UNCHANGED <<data, held, nIns, nExt>>
    /\ UNCHANGED notHeap

\* the heap program not running: no MinMaxHeap has been used
HeapIdle == HeapInit

Init == HeapInit /\ HashMapIdle /\ QueueIdle /\ StackIdle /\ ListIdle /\ BstIdle /\ GraphIdle /\ SearchIdle

Next ==
    \/ \E value \in Values : insert(value)
    \/ getMin
    \/ getMax
    \/ extractMin
    \/ extractMax
    \/ empty

Spec == Init /\ [][Next]_vars

\* The heaps of DeepLen slots that hold one value per level: slot i holds
\* f[depthOf(i)].  Each is the array left by inserting its values in array
\* order, since bubbleUp swaps nothing when the appended array is a heap.
Layered(f) == [i \in 1..DeepLen |-> f[depthOf(i - 1)]]

LevelOrdered(f) ==
    \A a, b \in DOMAIN f :
        a < b => IF a % 2 = 0 THEN f[a] <= f[b] ELSE f[a] >= f[b]

DeepHeaps ==
    {Layered(f) : f \in {g \in [0..depthOf(DeepLen - 1) -> Values] : LevelOrdered(g)}}

\* the heap after insert was called DeepLen times with the values of a
\* layered heap in array order
InitDeep ==
    /\ data \in DeepHeaps
    /\ op = "insert"
    /\ ret = 0
    /\ thrown = FALSE
    /\ held = [v \in {data[i] : i \in 1..Len(data)} |->
                 Cardinality({i \in 1..Len(data) : data[i] = v})]
    /\ nIns = DeepLen
    /\ nExt = 0
    /\ HashMapIdle /\ QueueIdle /\ StackIdle /\ ListIdle /\ BstIdle /\ GraphIdle /\ SearchIdle

\* runs from the empty heap together with runs from a deep heap
SpecDeep == (Init \/ InitDeep) /\ [][Next]_vars

\* runs from a deep heap alone: DeepInserts inserts and any number of the
\* other operations, in any order, so the heap passes through every size
\* from DeepLen + DeepInserts down to the empty heap
SpecDeepRuns == InitDeep /\ [][Next]_vars

-----------------------------------------------------------------------------
(***************************************************************************)
(* src/hash_map.cpp: class HashMap, int keys to std::string values, open   *)
(* addressing with linear probing.  A bucket is [key, value, state]; the   *)
(* object is [buckets, count] with buckets indexed from 0 through At.      *)
(***************************************************************************)

\* Bucket{}: key = 0, empty value, State::Empty
EmptyBucket == [key |-> 0, value |-> "", state |-> "Empty"]

\* std::vector<Bucket>(n)
NewBuckets(n) == [i \in 1..n |-> EmptyBucket]

\* std::hash<int>{}(key) is the key itself for the non-negative keys used here
indexFor(hm, key) == key % Len(hm.buckets)

\* the while loop of insertInternal; it has no exit other than an Empty bucket
\* or a bucket holding the key, so once steps reaches the table size with the
\* table unchanged the loop revisits the same buckets forever: returns = FALSE
RECURSIVE insertProbe(_, _, _, _, _, _)
insertProbe(hm, key, value, index, firstDeleted, steps) ==
    LET size   == Len(hm.buckets)
        bucket == At(hm.buckets, index)
    IN  IF steps >= size
        THEN [buckets |-> hm.buckets, count |-> hm.count, returns |-> FALSE]
        ELSE IF bucket.state = "Empty"
        THEN LET target == IF firstDeleted # size THEN firstDeleted ELSE index
             IN  [buckets |-> [hm.buckets EXCEPT ![target + 1] =
                                  [key |-> key, value |-> value, state |-> "Occupied"]],
                  count   |-> hm.count + 1,
                  returns |-> TRUE]
        ELSE IF bucket.state = "Deleted"
        THEN insertProbe(hm, key, value, (index + 1) % size,
                         IF firstDeleted = size THEN index ELSE firstDeleted, steps + 1)
        ELSE IF bucket.key = key
        THEN [buckets |-> [hm.buckets EXCEPT ![index + 1].value = value],
              count   |-> hm.count,
              returns |-> TRUE]
        ELSE insertProbe(hm, key, value, (index + 1) % size, firstDeleted, steps + 1)

insertInternal(hm, key, value) ==
    insertProbe(hm, key, value, indexFor(hm, key), Len(hm.buckets), 0)

\* the for loop of rehash over oldBuckets, from position i (0-based)
RECURSIVE rehashLoop(_, _, _)
rehashLoop(acc, oldBuckets, i) ==
    IF i >= Len(oldBuckets) \/ ~acc.returns THEN acc
    ELSE LET bucket == At(oldBuckets, i) IN
         IF bucket.state = "Occupied"
         THEN rehashLoop(insertInternal(acc, bucket.key, bucket.value), oldBuckets, i + 1)
         ELSE rehashLoop(acc, oldBuckets, i + 1)

rehash(hm, newCapacity) ==
    rehashLoop([buckets |-> NewBuckets(newCapacity), count |-> 0, returns |-> TRUE],
               hm.buckets, 0)

\* projected = double(desired) / double(size) > 0.6.  The literal 0.6 is the
\* double nearest to 3/5, and so is the quotient whenever desired/size is
\* exactly 3/5; for the small integers here the comparison is therefore
\* desired * 5 > size * 3.
ensureCapacity(hm, desired) ==
    IF hm.buckets = <<>>
    THEN [buckets |-> NewBuckets(8), count |-> hm.count, returns |-> TRUE]
    ELSE IF desired * 5 > Len(hm.buckets) * 3
    THEN rehash(hm, Len(hm.buckets) * 2)
    ELSE [buckets |-> hm.buckets, count |-> hm.count, returns |-> TRUE]

\* the while loop of findBucket; the result is the bucket's index, -1 for nullptr
RECURSIVE findProbe(_, _, _, _)
findProbe(hm, key, index, start) ==
    LET bucket == At(hm.buckets, index) IN
    IF bucket.state = "Empty" THEN -1
    ELSE IF bucket.state = "Occupied" /\ bucket.key = key THEN index
    ELSE LET next == (index + 1) % Len(hm.buckets) IN
         IF next = start THEN -1 ELSE findProbe(hm, key, next, start)

findBucket(hm, key) ==
    IF hm.buckets = <<>> THEN -1
    ELSE findProbe(hm, key, indexFor(hm, key), indexFor(hm, key))

\* removeProbe that marks the removed bucket Empty instead of Deleted
RECURSIVE removeProbe_MarksEmpty(_, _, _, _)
removeProbe_MarksEmpty(hm, key, index, start) ==
    LET bucket == At(hm.buckets, index) IN
    IF bucket.state = "Empty" THEN [hm |-> hm, ret |-> FALSE]
    ELSE IF bucket.state = "Occupied" /\ bucket.key = key
    THEN [hm  |-> [buckets |-> [hm.buckets EXCEPT ![index + 1].state = "Empty",
                                                  ![index + 1].value = ""],
                   count   |-> hm.count - 1],
          ret |-> TRUE]
    ELSE LET next == (index + 1) % Len(hm.buckets) IN
         IF next = start THEN [hm |-> hm, ret |-> FALSE]
         ELSE removeProbe_MarksEmpty(hm, key, next, start)

\* the while loop of remove; the result is [hm, ret]
RECURSIVE removeProbe(_, _, _, _)
removeProbe(hm, key, index, start) ==
    LET bucket == At(hm.buckets, index) IN
    IF bucket.state = "Empty" THEN [hm |-> hm, ret |-> FALSE]
    ELSE IF bucket.state = "Occupied" /\ bucket.key = key
    THEN [hm  |-> [buckets |-> [hm.buckets EXCEPT ![index + 1].state = "Deleted",
                                                  ![index + 1].value = ""],
                   count   |-> hm.count - 1],
          ret |-> TRUE]
    ELSE LET next == (index + 1) % Len(hm.buckets) IN
         IF next = start THEN [hm |-> hm, ret |-> FALSE]
         ELSE removeProbe(hm, key, next, start)

-----------------------------------------------------------------------------
(* HashMap: constructor and public member functions *)

\* explicit HashMap(std::size_t initialCapacity = 8)
HashMapNew(initialCapacity) ==
    [buckets |-> NewBuckets(IF initialCapacity < 8 THEN 8 ELSE initialCapacity),
     count   |-> 0]

\* a call of put that is still running (insertInternal never returned)
HashMapRunning == hmCall.op = "put" /\ ~hmCall.returns

put(key, value) ==
    /\ ~HashMapRunning
    /\ LET grown == ensureCapacity(hashMap, hashMap.count + 1)
           done  == IF grown.returns
                    THEN insertInternal([buckets |-> grown.buckets, count |-> grown.count],
                                        key, value)
                    ELSE grown
       IN  /\ hashMap' = [buckets |-> done.buckets, count |-> done.count]
           /\ hmCall' = [op |-> "put", returns |-> done.returns]
           /\ hmModel' = IF done.returns
                         THEN [k \in DOMAIN hmModel \cup {key} |->
                                  IF k = key THEN value ELSE hmModel[k]]
                         ELSE hmModel
    /\ UNCHANGED notHashMap

\* bool get(int key, std::string& value): what it returns and what it leaves
\* in value (value is assigned only when the key is found)
getResult(hm, key) ==
    LET bucket == findBucket(hm, key) IN
    IF bucket = -1 THEN [ret |-> FALSE]
    ELSE [ret |-> TRUE, value |-> At(hm.buckets, bucket).value]

containsResult(hm, key) == findBucket(hm, key) # -1

sizeResult(hm) == hm.count

\* get, contains and size are const member functions: a call changes nothing;
\* its result is getResult / containsResult / sizeResult of the current object
get(key) ==
    /\ ~HashMapRunning
    /\ getResult(hashMap, key).ret \in BOOLEAN
    /\ UNCHANGED hashMapVars
    /\ UNCHANGED notHashMap

contains(key) ==
    /\ ~HashMapRunning
    /\ containsResult(hashMap, key) \in BOOLEAN
    /\ UNCHANGED hashMapVars
    /\ UNCHANGED notHashMap

remove(key) ==
    /\ ~HashMapRunning
    /\ LET r == IF hashMap.buckets = <<>> THEN [hm |-> hashMap, ret |-> FALSE]
                ELSE removeProbe(hashMap, key, indexFor(hashMap, key),
                                 indexFor(hashMap, key))
       IN  /\ hashMap' = r.hm
           /\ hmCall' = [op |-> "remove", ret |-> r.ret, returns |-> TRUE]
    /\ hmModel' = [k \in DOMAIN hmModel \ {key} |-> hmModel[k]]
    /\ UNCHANGED notHashMap

size ==
    /\ ~HashMapRunning
    /\ sizeResult(hashMap) \in Nat
    /\ UNCHANGED hashMapVars
    /\ UNCHANGED notHashMap

\* Keys offered to the map: 0, 8, .., 8 * MaxWrap share home slot 0 of the
\* 8-bucket table (0 and 16 also share it in the 16-bucket table); key 1 has
\* the slot next to it.
MaxWrap == 2

HashKeys == {8 * w : w \in 0..MaxWrap} \cup {1}

\* Values offered to put: the first NumValues of these names
NumValues == 2

ValueNames == <<"Alice", "Bob", "Carol", "Dave">>

HashValues == {ValueNames[i] : i \in 1..NumValues}

\* HashMap phoneBook;
HashMapInit ==
    /\ hashMap = HashMapNew(8)
    /\ hmCall = NoCall
    /\ hmModel = <<>>

InitHashMap == HashMapInit /\ HeapIdle /\ QueueIdle /\ StackIdle /\ ListIdle /\ BstIdle /\ GraphIdle /\ SearchIdle

NextHashMap ==
    \/ \E key \in HashKeys, value \in HashValues : put(key, value)
    \/ \E key \in HashKeys : get(key)
    \/ \E key \in HashKeys : contains(key)
    \/ \E key \in HashKeys : remove(key)
    \/ size

SpecHashMap == InitHashMap /\ [][NextHashMap]_vars

-----------------------------------------------------------------------------
(***************************************************************************)
(* src/queue.cpp: class Queue, a FIFO of ints in a ring buffer that        *)
(* doubles when full.  data is the array of length capacity, indexed from  *)
(* 0 through At.  new int[n] leaves its elements uninitialized: they hold  *)
(* Uninit until written, and reading one yields any int value.             *)
(***************************************************************************)

Uninit == 0

\* new int[n]
NewInts(n) == [i \in 1..n |-> Uninit]

\* the values a read of the array element x can yield
ReadInt(x) == IF x = Uninit THEN Values ELSE {x}

\* explicit Queue(std::size_t initialCapacity = 8)
QueueNew(initialCapacity) ==
    LET capacity == IF initialCapacity = 0 THEN 8 ELSE initialCapacity IN
    [data |-> NewInts(capacity), capacity |-> capacity,
     headIndex |-> 0, tailIndex |-> 0, count |-> 0]

\* queueGrow that copies the old array slot by slot, ignoring headIndex
queueGrow_NoUnwrap(q) ==
    LET newCapacity == q.capacity * 2 IN
    [data      |-> [i \in 1..newCapacity |->
                       IF i - 1 < q.count THEN At(q.data, i - 1) ELSE Uninit],
     capacity  |-> newCapacity,
     headIndex |-> 0,
     tailIndex |-> q.count,
     count     |-> q.count]

\* Queue::grow
queueGrow(q) ==
    LET newCapacity == q.capacity * 2 IN
    [data      |-> [i \in 1..newCapacity |->
                       IF i - 1 < q.count
                       THEN At(q.data, (q.headIndex + (i - 1)) % q.capacity)
                       ELSE Uninit],
     capacity  |-> newCapacity,
     headIndex |-> 0,
     tailIndex |-> q.count,
     count     |-> q.count]

\* Queue::empty as the other member functions call it
queueIsEmpty(q) == q.count = 0

\* enqueue is offered at most MaxEnqueues times in one run of the program
MaxEnqueues == 5

enqueue(value) ==
    /\ Len(qIn) < MaxEnqueues
    /\ LET q == IF queue.count = queue.capacity THEN queueGrow(queue) ELSE queue IN
       queue' = [q EXCEPT !.data[q.tailIndex + 1] = value,
                          !.tailIndex = (q.tailIndex + 1) % q.capacity,
                          !.count = q.count + 1]
    /\ qCall' = [op |-> "enqueue", ret |-> 0, thrown |-> FALSE]
    /\ qIn' = Append(qIn, value)
    /\ UNCHANGED qOut
    /\ UNCHANGED notQueue

dequeue ==
    /\ IF queueIsEmpty(queue)
       THEN /\ qCall' = [op |-> "dequeue", ret |-> 0, thrown |-> TRUE]
            /\ UNCHANGED <<queue, qOut>>
       ELSE \E value \in ReadInt(At(queue.data, queue.headIndex)) :
               /\ queue' = [queue EXCEPT
                               !.headIndex = (queue.headIndex + 1) % queue.capacity,
                               !.count = queue.count - 1]
               /\ qCall' = [op |-> "dequeue", ret |-> value, thrown |-> FALSE]
               /\ qOut' = Append(qOut, value)
    /\ UNCHANGED qIn
    /\ UNCHANGED notQueue

front ==
    /\ IF queueIsEmpty(queue)
       THEN qCall' = [op |-> "front", ret |-> 0, thrown |-> TRUE]
       ELSE \E value \in ReadInt(At(queue.data, queue.headIndex)) :
               qCall' = [op |-> "front", ret |-> value, thrown |-> FALSE]
    /\ UNCHANGED <<queue, qIn, qOut>>
    /\ UNCHANGED notQueue

queueEmpty ==
    /\ qCall' = [op |-> "empty", ret |-> queueIsEmpty(queue), thrown |-> FALSE]
    /\ UNCHANGED <<queue, qIn, qOut>>
    /\ UNCHANGED notQueue

queueSize ==
    /\ qCall' = [op |-> "size", ret |-> queue.count, thrown |-> FALSE]
    /\ UNCHANGED <<queue, qIn, qOut>>
    /\ UNCHANGED notQueue

\* Arguments given to the constructors Queue(initialCapacity) and
\* Stack(initialCapacity): 0 .. MaxInitialCapacity (0 selects the capacity 8
\* that the default argument gives)
MaxInitialCapacity == 2

InitialCapacities == 0..MaxInitialCapacity

QueueInit ==
    /\ \E initialCapacity \in InitialCapacities : queue = QueueNew(initialCapacity)
    /\ qCall = NoCall
    /\ qIn = <<>>
    /\ qOut = <<>>

InitQueue == QueueInit /\ HeapIdle /\ HashMapIdle /\ StackIdle /\ ListIdle /\ BstIdle /\ GraphIdle /\ SearchIdle

NextQueue ==
    \/ \E value \in Values : enqueue(value)
    \/ dequeue
    \/ front
    \/ queueEmpty
    \/ queueSize

SpecQueue == InitQueue /\ [][NextQueue]_vars

-----------------------------------------------------------------------------
(***************************************************************************)
(* src/stack.cpp: class Stack, a LIFO of ints in an array that doubles     *)
(* when full.  data is the array of length capacity, indexed from 0        *)
(* through At; topIndex counts the elements.                               *)
(***************************************************************************)

\* explicit Stack(std::size_t initialCapacity = 8)
StackNew(initialCapacity) ==
    LET capacity == IF initialCapacity = 0 THEN 8 ELSE initialCapacity IN
    [data |-> NewInts(capacity), capacity |-> capacity, topIndex |-> 0]

\* stackGrow that copies one element too few
stackGrow_DropsLast(st) ==
    LET newCapacity == st.capacity * 2 IN
    [data     |-> [i \in 1..newCapacity |->
                      IF i - 1 < st.capacity - 1 THEN At(st.data, i - 1) ELSE Uninit],
     capacity |-> newCapacity,
     topIndex |-> st.topIndex]

\* Stack::grow
stackGrow(st) ==
    LET newCapacity == st.capacity * 2 IN
    [data     |-> [i \in 1..newCapacity |->
                      IF i - 1 < st.capacity THEN At(st.data, i - 1) ELSE Uninit],
     capacity |-> newCapacity,
     topIndex |-> st.topIndex]

\* Stack::empty as the other member functions call it
stackIsEmpty(st) == st.topIndex = 0

\* push is offered at most MaxPushes times in one run of the program
MaxPushes == 5

push(value) ==
    /\ sPushes < MaxPushes
    /\ LET st == IF stack.topIndex = stack.capacity THEN stackGrow(stack) ELSE stack IN
       stack' = [st EXCEPT !.data[st.topIndex + 1] = value,
                           !.topIndex = st.topIndex + 1]
    /\ sCall' = [op |-> "push", ret |-> 0, thrown |-> FALSE]
    /\ sModel' = Append(sModel, value)
    /\ sPushes' = sPushes + 1
    /\ UNCHANGED sPops
    /\ UNCHANGED notStack

\* pop that decrements topIndex before it checks for emptiness
pop_DecrementsFirst ==
    /\ IF stackIsEmpty(stack)
       THEN /\ sCall' = [op |-> "pop", ret |-> 0, thrown |-> TRUE]
            /\ stack' = [stack EXCEPT !.topIndex = stack.capacity]
            /\ UNCHANGED <<sModel, sPops>>
       ELSE \E value \in ReadInt(At(stack.data, stack.topIndex - 1)) :
               /\ stack' = [stack EXCEPT !.topIndex = stack.topIndex - 1]
               /\ sCall' = [op |-> "pop", ret |-> value, thrown |-> FALSE]
               /\ sModel' = SubSeq(sModel, 1, Len(sModel) - 1)
               /\ sPops' = sPops + 1
    /\ UNCHANGED sPushes
    /\ UNCHANGED notStack

pop ==
    /\ IF stackIsEmpty(stack)
       THEN /\ sCall' = [op |-> "pop", ret |-> 0, thrown |-> TRUE]
            /\ UNCHANGED <<stack, sModel, sPops>>
       ELSE \E value \in ReadInt(At(stack.data, stack.topIndex - 1)) :
               /\ stack' = [stack EXCEPT !.topIndex = stack.topIndex - 1]
               /\ sCall' = [op |-> "pop", ret |-> value, thrown |-> FALSE]
               /\ sModel' = SubSeq(sModel, 1, Len(sModel) - 1)
               /\ sPops' = sPops + 1
    /\ UNCHANGED sPushes
    /\ UNCHANGED notStack

peek ==
    /\ IF stackIsEmpty(stack)
       THEN sCall' = [op |-> "peek", ret |-> 0, thrown |-> TRUE]
       ELSE \E value \in ReadInt(At(stack.data, stack.topIndex - 1)) :
               sCall' = [op |-> "peek", ret |-> value, thrown |-> FALSE]
    /\ UNCHANGED <<stack, sModel, sPushes, sPops>>
    /\ UNCHANGED notStack

stackEmpty ==
    /\ sCall' = [op |-> "empty", ret |-> stackIsEmpty(stack), thrown |-> FALSE]
    /\ UNCHANGED <<stack, sModel, sPushes, sPops>>
    /\ UNCHANGED notStack

stackSize ==
    /\ sCall' = [op |-> "size", ret |-> stack.topIndex, thrown |-> FALSE]
    /\ UNCHANGED <<stack, sModel, sPushes, sPops>>
    /\ UNCHANGED notStack

StackInit ==
    /\ \E initialCapacity \in InitialCapacities : stack = StackNew(initialCapacity)
    /\ sCall = NoCall
    /\ sModel = <<>>
    /\ sPushes = 0
    /\ sPops = 0

InitStack == StackInit /\ HeapIdle /\ HashMapIdle /\ QueueIdle /\ ListIdle /\ BstIdle /\ GraphIdle /\ SearchIdle

NextStack ==
    \/ \E value \in Values : push(value)
    \/ pop
    \/ peek
    \/ stackEmpty
    \/ stackSize

SpecStack == InitStack /\ [][NextStack]_vars

-----------------------------------------------------------------------------
(* queue.cpp and stack.cpp side by side: a run is a run of one of the two  *)
(* programs; the object of the other is never constructed.                 *)

InitQueueStack ==
    /\ \/ QueueInit /\ StackIdle
       \/ StackInit /\ QueueIdle
    /\ HeapIdle
    /\ HashMapIdle
    /\ ListIdle
    /\ BstIdle
    /\ GraphIdle
    /\ SearchIdle

NextQueueStack ==
    \/ queue # NoQueue /\ \E value \in Values : enqueue(value)
    \/ queue # NoQueue /\ dequeue
    \/ queue # NoQueue /\ front
    \/ stack # NoStack /\ \E value \in Values : push(value)
    \/ stack # NoStack /\ pop
    \/ stack # NoStack /\ peek

SpecQueueStack == InitQueueStack /\ [][NextQueueStack]_vars

-----------------------------------------------------------------------------
(***************************************************************************)
(* src/linked_list.cpp: class SinglyLinkedList.  Node objects live in      *)
(* listNodes under their addresses; new Node yields any address not in     *)
(* use, delete returns the address.                                        *)
(***************************************************************************)

\* the list holds at most MaxListNodes nodes at a time
MaxListNodes == 4

ListAddrs == 1..MaxListNodes

\* the object at address a becomes n
Store(nodes, a, n) == [x \in DOMAIN nodes \cup {a} |-> IF x = a THEN n ELSE nodes[x]]

\* delete of the object at address a
Delete(nodes, a) == [x \in DOMAIN nodes \ {a} |-> nodes[x]]

\* explicit Node(int v)
ListNode(v) == [value |-> v, next |-> nullptr]

pushFront(value) ==
    /\ \E node \in ListAddrs \ DOMAIN listNodes :
          /\ listNodes' = Store(listNodes, node, [ListNode(value) EXCEPT !.next = list.head])
          /\ list' = [head   |-> node,
                      tail   |-> IF list.tail = nullptr THEN node ELSE list.tail,
                      length |-> list.length + 1]
    /\ lCall' = [op |-> "pushFront", ret |-> TRUE, atTail |-> FALSE]
    /\ UNCHANGED notList

pushBack(value) ==
    /\ \E node \in ListAddrs \ DOMAIN listNodes :
          IF list.head = nullptr
          THEN /\ listNodes' = Store(listNodes, node, ListNode(value))
               /\ list' = [head |-> node, tail |-> node, length |-> list.length + 1]
          ELSE /\ listNodes' = Store([listNodes EXCEPT ![list.tail].next = node],
                                     node, ListNode(value))
               /\ list' = [list EXCEPT !.tail = node, !.length = list.length + 1]
    /\ lCall' = [op |-> "pushBack", ret |-> TRUE, atTail |-> FALSE]
    /\ UNCHANGED notList

\* the loop of insertAfter and contains: the first node from current on that
\* holds target, nullptr when there is none
RECURSIVE findValue(_, _, _)
findValue(nodes, current, target) ==
    IF current = nullptr THEN nullptr
    ELSE IF nodes[current].value = target THEN current
    ELSE findValue(nodes, nodes[current].next, target)

insertAfter(target, value) ==
    /\ LET current == findValue(listNodes, list.head, target) IN
       IF current = nullptr
       THEN /\ lCall' = [op |-> "insertAfter", ret |-> FALSE, atTail |-> FALSE]
            /\ UNCHANGED <<list, listNodes>>
       ELSE \E node \in ListAddrs \ DOMAIN listNodes :
               /\ listNodes' = Store([listNodes EXCEPT ![current].next = node], node,
                                     [ListNode(value) EXCEPT !.next = listNodes[current].next])
               /\ list' = [list EXCEPT !.tail = IF current = list.tail THEN node ELSE @,
                                       !.length = list.length + 1]
               /\ lCall' = [op |-> "insertAfter", ret |-> TRUE,
                            atTail |-> current = list.tail]
    /\ UNCHANGED notList

\* the loop of remove: <<previous, current>> when it ends
RECURSIVE findWithPrevious(_, _, _, _)
findWithPrevious(nodes, previous, current, value) ==
    IF current = nullptr THEN <<previous, current>>
    ELSE IF nodes[current].value = value THEN <<previous, current>>
    ELSE findWithPrevious(nodes, current, nodes[current].next, value)

\* listRemove that leaves tail alone when it deletes the tail node
listRemove_KeepsTail(value) ==
    /\ LET found    == findWithPrevious(listNodes, nullptr, list.head, value)
           previous == found[1]
           current  == found[2]
       IN
       IF current = nullptr
       THEN /\ lCall' = [op |-> "remove", ret |-> FALSE, atTail |-> FALSE]
            /\ UNCHANGED <<list, listNodes>>
       ELSE LET unlinked == IF previous # nullptr
                            THEN [listNodes EXCEPT ![previous].next = listNodes[current].next]
                            ELSE listNodes
                newHead  == IF previous # nullptr THEN list.head ELSE listNodes[current].next
                newTail  == list.tail
                length   == list.length - 1
            IN
            /\ listNodes' = Delete(unlinked, current)
            /\ list' = [head   |-> newHead,
                        tail   |-> IF length = 0 THEN nullptr ELSE newTail,
                        length |-> length]
            /\ lCall' = [op |-> "remove", ret |-> TRUE, atTail |-> current = list.tail]
    /\ UNCHANGED notList

listRemove(value) ==
    /\ LET found    == findWithPrevious(listNodes, nullptr, list.head, value)
           previous == found[1]
           current  == found[2]
       IN
       IF current = nullptr
       THEN /\ lCall' = [op |-> "remove", ret |-> FALSE, atTail |-> FALSE]
            /\ UNCHANGED <<list, listNodes>>
       ELSE LET unlinked == IF previous # nullptr
                            THEN [listNodes EXCEPT ![previous].next = listNodes[current].next]
                            ELSE listNodes
                newHead  == IF previous # nullptr THEN list.head ELSE listNodes[current].next
                newTail  == IF current = list.tail THEN previous ELSE list.tail
                length   == list.length - 1
            IN
            /\ listNodes' = Delete(unlinked, current)
            /\ list' = [head   |-> newHead,
                        tail   |-> IF length = 0 THEN nullptr ELSE newTail,
                        length |-> length]
            /\ lCall' = [op |-> "remove", ret |-> TRUE, atTail |-> current = list.tail]
    /\ UNCHANGED notList

listContains(value) ==
    /\ lCall' = [op |-> "contains", ret |-> findValue(listNodes, list.head, value) # nullptr,
                 atTail |-> FALSE]
    /\ UNCHANGED <<list, listNodes>>
    /\ UNCHANGED notList

listSize ==
    /\ lCall' = [op |-> "size", ret |-> list.length, atTail |-> FALSE]
    /\ UNCHANGED <<list, listNodes>>
    /\ UNCHANGED notList

listEmpty ==
    /\ lCall' = [op |-> "empty", ret |-> list.length = 0, atTail |-> FALSE]
    /\ UNCHANGED <<list, listNodes>>
    /\ UNCHANGED notList

\* the loop of clear: the nodes left once every node from current on is deleted
RECURSIVE deleteFrom(_, _)
deleteFrom(nodes, current) ==
    IF current = nullptr THEN nodes
    ELSE deleteFrom(Delete(nodes, current), nodes[current].next)

clear ==
    /\ listNodes' = deleteFrom(listNodes, list.head)
    /\ list' = [head |-> nullptr, tail |-> nullptr, length |-> 0]
    /\ lCall' = [op |-> "clear", ret |-> TRUE, atTail |-> FALSE]
    /\ UNCHANGED notList

ListInit == ListIdle

InitList == ListInit /\ HeapIdle /\ HashMapIdle /\ QueueIdle /\ StackIdle /\ BstIdle /\ GraphIdle /\ SearchIdle

NextList ==
    \/ \E value \in Values : pushFront(value)
    \/ \E value \in Values : pushBack(value)
    \/ \E target \in Values, value \in Values : insertAfter(target, value)
    \/ \E value \in Values : listRemove(value)
    \/ \E value \in Values : listContains(value)
    \/ listSize
    \/ listEmpty
    \/ clear

SpecList == InitList /\ [][NextList]_vars

-----------------------------------------------------------------------------
(***************************************************************************)
(* src/bst_with_duplicates.cpp: class MultisetBST, a binary search tree    *)
(* whose nodes carry a count.  Node objects live in bstNodes under their   *)
(* addresses, as the list's nodes do.                                      *)
(***************************************************************************)

\* keys given to insert, contains, eraseOne and eraseAll: 1 .. MaxKey
MaxKey == 4

TreeKeys == 1..MaxKey

\* the tree holds at most MaxBstNodes nodes at a time
MaxBstNodes == 4

BstAddrs == 1..MaxBstNodes

\* insert(key) is offered while key occurs fewer than MaxCount times
MaxCount == 2

\* explicit Node(int k)
BstNode(k) == [key |-> k, count |-> 1, left |-> nullptr, right |-> nullptr]

\* MultisetBST::insertRecursive; fresh is the address new Node yields if it is
\* reached.  The result is [nodes, ret].
RECURSIVE insertRecursive(_, _, _, _)
insertRecursive(nodes, node, key, fresh) ==
    IF node = nullptr
    THEN [nodes |-> Store(nodes, fresh, BstNode(key)), ret |-> fresh]
    ELSE IF key < nodes[node].key
    THEN LET r == insertRecursive(nodes, nodes[node].left, key, fresh) IN
         [nodes |-> [r.nodes EXCEPT ![node].left = r.ret], ret |-> node]
    ELSE IF key > nodes[node].key
    THEN LET r == insertRecursive(nodes, nodes[node].right, key, fresh) IN
         [nodes |-> [r.nodes EXCEPT ![node].right = r.ret], ret |-> node]
    ELSE [nodes |-> [nodes EXCEPT ![node].count = @ + 1], ret |-> node]

RECURSIVE containsRecursive(_, _, _)
containsRecursive(nodes, node, key) ==
    IF node = nullptr THEN FALSE
    ELSE IF key < nodes[node].key THEN containsRecursive(nodes, nodes[node].left, key)
    ELSE IF key > nodes[node].key THEN containsRecursive(nodes, nodes[node].right, key)
    ELSE TRUE

RECURSIVE findMin(_, _)
findMin(nodes, node) ==
    IF node # nullptr /\ nodes[node].left # nullptr
    THEN findMin(nodes, nodes[node].left)
    ELSE node

\* eraseRecursive that moves the successor's key into the node but not its count
RECURSIVE eraseRecursive_KeepsCount(_, _, _, _)
eraseRecursive_KeepsCount(nodes, node, key, removeAll) ==
    IF node = nullptr
    THEN [nodes |-> nodes, ret |-> nullptr, replaced |-> FALSE]
    ELSE IF key < nodes[node].key
    THEN LET r == eraseRecursive_KeepsCount(nodes, nodes[node].left, key, removeAll) IN
         [nodes |-> [r.nodes EXCEPT ![node].left = r.ret], ret |-> node,
          replaced |-> r.replaced]
    ELSE IF key > nodes[node].key
    THEN LET r == eraseRecursive_KeepsCount(nodes, nodes[node].right, key, removeAll) IN
         [nodes |-> [r.nodes EXCEPT ![node].right = r.ret], ret |-> node,
          replaced |-> r.replaced]
    ELSE IF ~removeAll /\ nodes[node].count > 1
    THEN [nodes |-> [nodes EXCEPT ![node].count = @ - 1], ret |-> node, replaced |-> FALSE]
    ELSE IF nodes[node].left = nullptr
    THEN [nodes |-> Delete(nodes, node), ret |-> nodes[node].right, replaced |-> FALSE]
    ELSE IF nodes[node].right = nullptr
    THEN [nodes |-> Delete(nodes, node), ret |-> nodes[node].left, replaced |-> FALSE]
    ELSE LET successor == findMin(nodes, nodes[node].right)
             keyMoved  == [nodes EXCEPT ![node].key = nodes[successor].key]
             countOne  == [keyMoved EXCEPT ![successor].count = 1]
             r == eraseRecursive_KeepsCount(countOne, countOne[node].right,
                                            countOne[successor].key, TRUE)
         IN [nodes |-> [r.nodes EXCEPT ![node].right = r.ret], ret |-> node,
             replaced |-> TRUE]

\* MultisetBST::eraseRecursive.  The result is [nodes, ret, replaced]; replaced
\* tells whether a node with two children was overwritten by its successor.
RECURSIVE eraseRecursive(_, _, _, _)
eraseRecursive(nodes, node, key, removeAll) ==
    IF node = nullptr
    THEN [nodes |-> nodes, ret |-> nullptr, replaced |-> FALSE]
    ELSE IF key < nodes[node].key
    THEN LET r == eraseRecursive(nodes, nodes[node].left, key, removeAll) IN
         [nodes |-> [r.nodes EXCEPT ![node].left = r.ret], ret |-> node,
          replaced |-> r.replaced]
    ELSE IF key > nodes[node].key
    THEN LET r == eraseRecursive(nodes, nodes[node].right, key, removeAll) IN
         [nodes |-> [r.nodes EXCEPT ![node].right = r.ret], ret |-> node,
          replaced |-> r.replaced]
    ELSE IF ~removeAll /\ nodes[node].count > 1
    THEN [nodes |-> [nodes EXCEPT ![node].count = @ - 1], ret |-> node, replaced |-> FALSE]
    ELSE IF nodes[node].left = nullptr
    THEN [nodes |-> Delete(nodes, node), ret |-> nodes[node].right, replaced |-> FALSE]
    ELSE IF nodes[node].right = nullptr
    THEN [nodes |-> Delete(nodes, node), ret |-> nodes[node].left, replaced |-> FALSE]
    ELSE LET successor == findMin(nodes, nodes[node].right)
             keyMoved  == [nodes EXCEPT ![node].key = nodes[successor].key]
             countMoved == [keyMoved EXCEPT ![node].count = keyMoved[successor].count]
             countOne  == [countMoved EXCEPT ![successor].count = 1]
             r == eraseRecursive(countOne, countOne[node].right,
                                 countOne[successor].key, TRUE)
         IN [nodes |-> [r.nodes EXCEPT ![node].right = r.ret], ret |-> node,
             replaced |-> TRUE]

\* what printInOrderRecursive writes: the keys in order, each count times
RECURSIVE printInOrderRecursive(_, _)
printInOrderRecursive(nodes, node) ==
    IF node = nullptr THEN <<>>
    ELSE printInOrderRecursive(nodes, nodes[node].left)
         \o [i \in 1..nodes[node].count |-> nodes[node].key]
         \o printInOrderRecursive(nodes, nodes[node].right)

Occurs(model, key) == IF key \in DOMAIN model THEN model[key] ELSE 0

bstInsert(key) ==
    /\ Occurs(bstModel, key) < MaxCount
    /\ IF containsRecursive(bstNodes, root, key)
       THEN LET r == insertRecursive(bstNodes, root, key, nullptr) IN
            /\ bstNodes' = r.nodes
            /\ root' = r.ret
       ELSE \E fresh \in BstAddrs \ DOMAIN bstNodes :
               LET r == insertRecursive(bstNodes, root, key, fresh) IN
               /\ bstNodes' = r.nodes
               /\ root' = r.ret
    /\ bstCall' = [op |-> "insert", ret |-> TRUE, replaced |-> FALSE]
    /\ bstModel' = [k \in DOMAIN bstModel \cup {key} |-> Occurs(bstModel, k) + IF k = key THEN 1 ELSE 0]
    /\ UNCHANGED notBst

bstContains(key) ==
    /\ bstCall' = [op |-> "contains", ret |-> containsRecursive(bstNodes, root, key),
                   replaced |-> FALSE]
    /\ UNCHANGED <<root, bstNodes, bstModel>>
    /\ UNCHANGED notBst

eraseOne(key) ==
    /\ LET r == eraseRecursive(bstNodes, root, key, FALSE) IN
       /\ bstNodes' = r.nodes
       /\ root' = r.ret
       /\ bstCall' = [op |-> "eraseOne", ret |-> TRUE, replaced |-> r.replaced]
    /\ bstModel' = [k \in {x \in DOMAIN bstModel : x # key \/ bstModel[x] > 1} |->
                       bstModel[k] - IF k = key THEN 1 ELSE 0]
    /\ UNCHANGED notBst

eraseAll(key) ==
    /\ LET r == eraseRecursive(bstNodes, root, key, TRUE) IN
       /\ bstNodes' = r.nodes
       /\ root' = r.ret
       /\ bstCall' = [op |-> "eraseAll", ret |-> TRUE, replaced |-> r.replaced]
    /\ bstModel' = [k \in DOMAIN bstModel \ {key} |-> bstModel[k]]
    /\ UNCHANGED notBst

BstInit == BstIdle

InitBst == BstInit /\ HeapIdle /\ HashMapIdle /\ QueueIdle /\ StackIdle /\ ListIdle /\ GraphIdle /\ SearchIdle

NextBst ==
    \/ \E key \in TreeKeys : bstInsert(key)
    \/ \E key \in TreeKeys : bstContains(key)
    \/ \E key \in TreeKeys : eraseOne(key)
    \/ \E key \in TreeKeys : eraseAll(key)

SpecBst == InitBst /\ [][NextBst]_vars

-----------------------------------------------------------------------------
(***************************************************************************)
(* src/graph_traversal.cpp: class Graph.  adjacency maps each vertex that  *)
(* an edge touched to the sequence of its neighbors.  A traversal is a     *)
(* loop; trav holds its locals between iterations: visited (the entries    *)
(* of the unordered_map), pending (the std::stack, top last, or the        *)
(* std::queue, front first) and out (the vertices written to std::cout).   *)
(* As in main, the edges are added before the first traversal.             *)
(***************************************************************************)

\* vertices given to addEdge and to the traversals: 1 .. NumVertices
NumVertices == 4

Vertices == 1..NumVertices

\* addEdge is offered at most MaxEdges times
MaxEdges == 3

\* adjacency[vertex] of the code: the entry, created empty when absent
Entry(adj, vertex) == IF vertex \in DOMAIN adj THEN adj[vertex] ELSE <<>>

\* adjacency[vertex].push_back(neighbor)
PushBackNeighbor(adj, vertex, neighbor) ==
    [v \in DOMAIN adj \cup {vertex} |->
        IF v = vertex THEN Append(Entry(adj, v), neighbor) ELSE adj[v]]

RECURSIVE TotalLen(_, _)
TotalLen(adj, v) ==
    IF v = 0 THEN 0 ELSE Len(Entry(adj, v)) + TotalLen(adj, v - 1)

\* the number of addEdge calls that built adj
EdgeCount(adj) == TotalLen(adj, NumVertices) \div 2

addEdge(from, to) ==
    /\ trav = NoTraversal
    /\ EdgeCount(adjacency) < MaxEdges
    /\ adjacency' = PushBackNeighbor(PushBackNeighbor(adjacency, from, to), to, from)
    /\ UNCHANGED trav
    /\ UNCHANGED notGraph

\* visited[vertex] of the code read as an rvalue: the entry is created false
\* when absent
Touch(visited, vertex) ==
    [v \in DOMAIN visited \cup {vertex} |->
        IF v \in DOMAIN visited THEN visited[v] ELSE FALSE]

\* visited[vertex] = true
Mark(visited, vertex) ==
    [v \in DOMAIN visited \cup {vertex} |-> IF v = vertex THEN TRUE ELSE visited[v]]

depthFirstSearch(start) ==
    /\ trav.returns
    /\ trav' = [op |-> "dfs", returns |-> FALSE, start |-> start,
                visited |-> <<>>, pending |-> <<start>>, out |-> <<>>]
    /\ UNCHANGED adjacency
    /\ UNCHANGED notGraph

\* the for loop of depthFirstSearch, from neighbors[i] down to neighbors[1];
\* the result is [visited, pending]
RECURSIVE pushUnvisited(_, _, _, _)
pushUnvisited(neighbors, i, visited, pending) ==
    IF i = 0 THEN [visited |-> visited, pending |-> pending]
    ELSE LET touched == Touch(visited, neighbors[i]) IN
         pushUnvisited(neighbors, i - 1, touched,
                       IF ~touched[neighbors[i]] THEN Append(pending, neighbors[i])
                                                 ELSE pending)

\* an iteration of depthFirstSearch that does not test visited[vertex] after
\* the pop
dfsStep_NoPopCheck ==
    /\ trav.op = "dfs"
    /\ ~trav.returns
    /\ trav.pending # <<>>
    /\ LET vertex  == trav.pending[Len(trav.pending)]
           popped  == SubSeq(trav.pending, 1, Len(trav.pending) - 1)
           marked  == Mark(trav.visited, vertex)
           out     == Append(trav.out, vertex)
       IN
       IF vertex \notin DOMAIN adjacency
       THEN trav' = [trav EXCEPT !.pending = popped, !.visited = marked, !.out = out]
       ELSE LET r == pushUnvisited(adjacency[vertex], Len(adjacency[vertex]),
                                   marked, popped)
            IN trav' = [trav EXCEPT !.pending = r.pending, !.visited = r.visited,
                                    !.out = out]
    /\ UNCHANGED adjacency
    /\ UNCHANGED notGraph

\* one iteration of the while loop of depthFirstSearch
dfsStep ==
    /\ trav.op = "dfs"
    /\ ~trav.returns
    /\ trav.pending # <<>>
    /\ LET vertex  == trav.pending[Len(trav.pending)]
           popped  == SubSeq(trav.pending, 1, Len(trav.pending) - 1)
           touched == Touch(trav.visited, vertex)
           marked  == Mark(touched, vertex)
           out     == Append(trav.out, vertex)
       IN
       IF touched[vertex]
       THEN trav' = [trav EXCEPT !.pending = popped, !.visited = touched]
       ELSE IF vertex \notin DOMAIN adjacency
       THEN trav' = [trav EXCEPT !.pending = popped, !.visited = marked, !.out = out]
       ELSE LET r == pushUnvisited(adjacency[vertex], Len(adjacency[vertex]),
                                   marked, popped)
            IN trav' = [trav EXCEPT !.pending = r.pending, !.visited = r.visited,
                                    !.out = out]
    /\ UNCHANGED adjacency
    /\ UNCHANGED notGraph

\* the while loop of depthFirstSearch ends and the function returns
dfsReturn ==
    /\ trav.op = "dfs"
    /\ ~trav.returns
    /\ trav.pending = <<>>
    /\ trav' = [trav EXCEPT !.returns = TRUE]
    /\ UNCHANGED adjacency
    /\ UNCHANGED notGraph

breadthFirstSearch(start) ==
    /\ trav.returns
    /\ trav' = [op |-> "bfs", returns |-> FALSE, start |-> start,
                visited |-> Mark(<<>>, start), pending |-> <<start>>, out |-> <<>>]
    /\ UNCHANGED adjacency
    /\ UNCHANGED notGraph

\* the for loop of breadthFirstSearch, from neighbors[i] on;
\* the result is [visited, pending]
RECURSIVE enqueueUnvisited(_, _, _, _)
enqueueUnvisited(neighbors, i, visited, pending) ==
    IF i > Len(neighbors) THEN [visited |-> visited, pending |-> pending]
    ELSE LET touched == Touch(visited, neighbors[i]) IN
         IF ~touched[neighbors[i]]
         THEN enqueueUnvisited(neighbors, i + 1, Mark(touched, neighbors[i]),
                               Append(pending, neighbors[i]))
         ELSE enqueueUnvisited(neighbors, i + 1, touched, pending)

\* breadthFirstSearch with a stack where the code has a queue: the vertex taken
\* is the one enqueued last
bfsStep_TakesBack ==
    /\ trav.op = "bfs"
    /\ ~trav.returns
    /\ trav.pending # <<>>
    /\ LET vertex == trav.pending[Len(trav.pending)]
           popped == SubSeq(trav.pending, 1, Len(trav.pending) - 1)
           out    == Append(trav.out, vertex)
       IN IF vertex \notin DOMAIN adjacency
          THEN trav' = [trav EXCEPT !.pending = popped, !.out = out]
          ELSE LET r == enqueueUnvisited(adjacency[vertex], 1, trav.visited, popped)
               IN trav' = [trav EXCEPT !.pending = r.pending,
                                       !.visited = r.visited, !.out = out]
    /\ UNCHANGED adjacency
    /\ UNCHANGED notGraph

\* one iteration of the while loop of breadthFirstSearch
bfsStep ==
    /\ trav.op = "bfs"
    /\ ~trav.returns
    /\ trav.pending # <<>>
    /\ LET vertex == trav.pending[1]
           popped == SubSeq(trav.pending, 2, Len(trav.pending))
           out    == Append(trav.out, vertex)
       IN
       IF vertex \notin DOMAIN adjacency
       THEN trav' = [trav EXCEPT !.pending = popped, !.out = out]
       ELSE LET r == enqueueUnvisited(adjacency[vertex], 1, trav.visited, popped)
            IN trav' = [trav EXCEPT !.pending = r.pending, !.visited = r.visited,
                                    !.out = out]
    /\ UNCHANGED adjacency
    /\ UNCHANGED notGraph

\* the while loop of breadthFirstSearch ends and the function returns
bfsReturn ==
    /\ trav.op = "bfs"
    /\ ~trav.returns
    /\ trav.pending = <<>>
    /\ trav' = [trav EXCEPT !.returns = TRUE]
    /\ UNCHANGED adjacency
    /\ UNCHANGED notGraph

GraphInit == GraphIdle

InitGraph == GraphInit /\ HeapIdle /\ HashMapIdle /\ QueueIdle /\ StackIdle /\ ListIdle /\ BstIdle /\ SearchIdle

\* the steps of a traversal that was called
TraversalStep == dfsStep \/ dfsReturn \/ bfsStep \/ bfsReturn

NextGraph ==
    \/ \E from \in Vertices, to \in Vertices : addEdge(from, to)
    \/ \E start \in Vertices : depthFirstSearch(start)
    \/ \E start \in Vertices : breadthFirstSearch(start)
    \/ dfsStep
    \/ dfsReturn
    \/ bfsStep
    \/ bfsReturn

\* a traversal that was called keeps running until it returns
SpecGraph == InitGraph /\ [][NextGraph]_vars /\ WF_vars(TraversalStep)

-----------------------------------------------------------------------------
(***************************************************************************)
(* src/binary_search.cpp: binarySearchIterative and binarySearchRecursive  *)
(* on a vector d sorted in non-decreasing order.  Indices are the code's,    *)
(* from 0, read through At; int division of non-negative ints is \div.     *)
(***************************************************************************)

\* the while loop of binarySearchIterative with the test left < right
RECURSIVE iterativeLoop_StopsEarly(_, _, _, _)
iterativeLoop_StopsEarly(d, target, left, right) ==
    IF ~(left < right) THEN -1
    ELSE LET mid == left + (right - left) \div 2 IN
         IF At(d, mid) = target THEN mid
         ELSE IF At(d, mid) < target
         THEN iterativeLoop_StopsEarly(d, target, mid + 1, right)
         ELSE iterativeLoop_StopsEarly(d, target, left, mid - 1)

\* the while loop of binarySearchIterative, entered with the window [left, right]
RECURSIVE iterativeLoop(_, _, _, _)
iterativeLoop(d, target, left, right) ==
    IF ~(left <= right) THEN -1
    ELSE LET mid == left + (right - left) \div 2 IN
         IF At(d, mid) = target THEN mid
         ELSE IF At(d, mid) < target
         THEN iterativeLoop(d, target, mid + 1, right)
         ELSE iterativeLoop(d, target, left, mid - 1)

binarySearchIterative(d, target) == iterativeLoop(d, target, 0, Len(d) - 1)

RECURSIVE binarySearchRecursive(_, _, _, _)
binarySearchRecursive(d, target, left, right) ==
    IF left > right THEN -1
    ELSE LET mid == left + (right - left) \div 2 IN
         IF At(d, mid) = target THEN mid
         ELSE IF At(d, mid) < target
         THEN binarySearchRecursive(d, target, mid + 1, right)
         ELSE binarySearchRecursive(d, target, left, mid - 1)

\* main's call binarySearchIterative(sorted, target)
searchIterative(target) ==
    /\ bsCall' = [op |-> "iterative", target |-> target,
                  ret |-> binarySearchIterative(sorted, target)]
    /\ UNCHANGED sorted
    /\ UNCHANGED notSearch

\* main's call binarySearchRecursive(sorted, target, 0, sorted.size() - 1)
searchRecursive(target) ==
    /\ bsCall' = [op |-> "recursive", target |-> target,
                  ret |-> binarySearchRecursive(sorted, target, 0, Len(sorted) - 1)]
    /\ UNCHANGED sorted
    /\ UNCHANGED notSearch

\* the vectors searched have at most MaxLen elements
MaxLen == 6

IsSorted(d) == \A i \in 1..Len(d) - 1 : d[i] <= d[i + 1]

SortedVectors == {d \in UNION {[1..n -> Values] : n \in 0..MaxLen} : IsSorted(d)}

\* the targets searched for: every value of a vector, one below and one above
Targets == 0..MaxVal + 1

SearchInit ==
    /\ sorted \in SortedVectors
    /\ bsCall = NoCall

InitSearch ==
    /\ SearchInit
    /\ HeapIdle /\ HashMapIdle /\ QueueIdle /\ StackIdle /\ ListIdle /\ BstIdle /\ GraphIdle

NextSearch ==
    \/ \E target \in Targets : searchIterative(target)
    \/ \E target \in Targets : searchRecursive(target)

SpecSearch == InitSearch /\ [][NextSearch]_vars

-----------------------------------------------------------------------------
(* Vocabulary of the properties *)

Range(s) == {s[k] : k \in DOMAIN s}

BagOfSeq(s) == [v \in Range(s) |-> Cardinality({k \in DOMAIN s : s[k] = v})]

MinOfSeq(s) == CHOOSE x \in Range(s) : \A y \in Range(s) : x <= y

MaxOfSeq(s) == CHOOSE x \in Range(s) : \A y \in Range(s) : x >= y

\* dd is a proper descendant of i in the breadth-first layout
RECURSIVE IsDescendant(_, _)
IsDescendant(dd, i) ==
    /\ dd > i
    /\ (parent(dd) = i \/ IsDescendant(parent(dd), i))

HeapProperty(d) ==
    \A i \in 0..(Len(d) - 1) : \A dd \in 0..(Len(d) - 1) :
        IsDescendant(dd, i) =>
            IF isMinLevel(i) THEN At(d, i) <= At(d, dd) ELSE At(d, i) >= At(d, dd)

Reads == {"getMin", "getMax", "empty"}

Partial == {"getMin", "getMax", "extractMin", "extractMax"}

-----------------------------------------------------------------------------
(* Properties *)

\* C1: after every operation, every min-level index holds a value <= each of
\* its descendants and every max-level index holds a value >= each of its
\* descendants.
C1_HeapProperty == HeapProperty(data)

\* C2: whenever getMin returns a value, that value is the minimum of all the
\* values held in the heap.
C2_GetMinIsMinimum ==
    (op = "getMin" /\ ~thrown) => ret = MinOfSeq(data)

\* C3: whenever getMax returns a value, that value is the maximum of all the
\* values held in the heap.
C3_GetMaxIsMaximum ==
    (op = "getMax" /\ ~thrown) => ret = MaxOfSeq(data)

\* C4: two extractMin calls in a row return values in non-decreasing order,
\* so draining with extractMin yields a non-decreasing sequence.
C4_ExtractMinNonDecreasing ==
    [][(op = "extractMin" /\ ~thrown /\ op' = "extractMin" /\ ~thrown')
          => ret <= ret']_vars

\* C5: two extractMax calls in a row return values in non-increasing order,
\* so draining with extractMax yields a non-increasing sequence.
C5_ExtractMaxNonIncreasing ==
    [][(op = "extractMax" /\ ~thrown /\ op' = "extractMax" /\ ~thrown')
          => ret >= ret']_vars

\* C6: the bag of values in the backing array equals the bag of inserted
\* values minus one occurrence per value returned by an extraction.
C6_MultisetPreserved == BagOfSeq(data) = held

C6_Witness ==
    /\ op \in {"extractMin", "extractMax"}
    /\ ~thrown
    /\ nExt >= 2
    /\ nIns >= 7
    /\ Len(data) >= 5
    /\ Cardinality(Range(data)) >= 2

\* C7: after n inserts and k successful extractions the heap holds exactly
\* n - k elements in slots 0..n-k-1, and empty() is true exactly when n - k = 0.
C7_SizeAccounting ==
    /\ Len(data) = nIns - nExt
    /\ DOMAIN data = 1..(nIns - nExt)
    /\ (op = "empty" => (ret <=> (nIns - nExt = 0)))

C7_Witness ==
    /\ nIns >= 5
    /\ nExt >= 2
    /\ Len(data) = nIns - nExt
    /\ op = "empty"

\* C8: getMin, getMax, extractMin and extractMax throw exactly when called on
\* a heap holding zero elements; insert and empty never throw.
C8_ThrowsIffEmpty ==
    [][/\ (op' \in Partial => (thrown' <=> (data = <<>>)))
       /\ (op' \in {"insert", "empty"} => ~thrown')]_vars

C8_Witness ==
    /\ op = "extractMax"
    /\ thrown
    /\ nIns >= 1
    /\ data = <<>>

\* C9: a call that throws leaves the backing array as it was (empty), and an
\* insert(v) after it gives getMin = getMax = v, as on a fresh heap.
C9_FailureLeavesHeapUnchanged ==
    [][thrown' =>
          /\ data' = data
          /\ data' = <<>>
          /\ \A v \in Values :
                bubbleUp(Append(data', v), Len(data')) = <<v>>]_vars

C9_Witness ==
    /\ op = "extractMin"
    /\ thrown
    /\ nExt >= 1
    /\ data = <<>>

\* C10: getMin, getMax and empty leave the backing array unchanged, and the
\* same read called twice in a row returns the same result.
C10_ReadsArePure ==
    [][op' \in Reads =>
          /\ data' = data
          /\ (op = op' => (ret' = ret /\ thrown' = thrown))]_vars

C10_Witness ==
    /\ op = "getMax"
    /\ ~thrown
    /\ Len(data) >= 3
    /\ ret = MaxOf2(At(data, 1), At(data, 2))

\* C11: on a heap of one element getMax returns that element (what getMin
\* returns); on a heap of two elements it returns data[1], and data[1] is the
\* larger of the two held values.
C11_GetMaxBoundary ==
    (op = "getMax" /\ ~thrown) =>
        /\ (Len(data) = 1 => ret = At(data, 0))
        /\ (Len(data) = 2 => (ret = At(data, 1) /\ ret = MaxOfSeq(data)))

-----------------------------------------------------------------------------
(* main of min_max_heap.cpp: the six inserts in main's order, then         *)
(* extractMin, then extractMax.  The reads main makes (getMin, getMax) and *)
(* empty are offered at every point; after main's two extractions the heap *)
(* stays in use: further extractions, and further inserts that run through *)
(* main's values again.                                                    *)

MainInputs == <<10, 5, 30, 3, 17, 22>>

NextMain ==
    \/ nIns < Len(MainInputs) /\ insert(MainInputs[nIns + 1])
    \/ nIns >= Len(MainInputs) /\ nExt >= 2
          /\ insert(MainInputs[(nIns % Len(MainInputs)) + 1])
    \/ getMin
    \/ getMax
    \/ empty
    \/ nIns = Len(MainInputs) /\ nExt = 0 /\ extractMin
    \/ nIns = Len(MainInputs) /\ nExt = 1 /\ extractMax
    \/ nIns = Len(MainInputs) /\ nExt >= 2 /\ extractMin
    \/ nIns = Len(MainInputs) /\ nExt >= 2 /\ extractMax

SpecMain == Init /\ [][NextMain]_vars

\* C12: after inserting 10, 5, 30, 3, 17, 22 getMin is 3 and getMax is 30;
\* extractMin then returns 3 and extractMax returns 30; afterwards the heap
\* holds exactly {10, 5, 17, 22}, getMin is 5 and getMax is 22.
C12_ReferenceScenario ==
    /\ (nIns = 6 /\ nExt = 0 /\ op = "getMin" => (~thrown /\ ret = 3))
    /\ (nIns = 6 /\ nExt = 0 /\ op = "getMax" => (~thrown /\ ret = 30))
    /\ (nIns = 6 /\ nExt = 1 /\ op = "extractMin" => (~thrown /\ ret = 3))
    /\ (nIns = 6 /\ nExt = 2 /\ op = "extractMax" => (~thrown /\ ret = 30))
    /\ (nIns = 6 /\ nExt = 2 =>
           /\ Len(data) = 4
           /\ BagOfSeq(data) = SetToBag({10, 5, 17, 22})
           /\ (op = "getMin" => (~thrown /\ ret = 5))
           /\ (op = "getMax" => (~thrown /\ ret = 22)))

C12_Witness ==
    /\ nIns = 6
    /\ nExt = 2
    /\ op = "getMax"
    /\ ret = 22
    /\ data = <<5, 22, 10, 17>>

\* the number of Occupied buckets that hold key
Occurrences(hm, key) ==
    Cardinality({i \in DOMAIN hm.buckets :
                    hm.buckets[i].state = "Occupied" /\ hm.buckets[i].key = key})

\* get, contains and size answer as the map the calls so far describe
AnswersAsMap ==
    /\ \A key \in HashKeys :
          /\ getResult(hashMap, key).ret <=> key \in DOMAIN hmModel
          /\ containsResult(hashMap, key) <=> key \in DOMAIN hmModel
          /\ key \in DOMAIN hmModel => getResult(hashMap, key).value = hmModel[key]
          /\ Occurrences(hashMap, key) = IF key \in DOMAIN hmModel THEN 1 ELSE 0
    /\ sizeResult(hashMap) = Cardinality(DOMAIN hmModel)

\* C13: after any sequence of put and remove, get and contains succeed exactly
\* for the keys whose last operation was a put, get yields the value of that
\* put, size is the number of present keys, every present key sits in exactly
\* one Occupied bucket, and remove returns true exactly when the key was present.
C13_HashMapIsAMap ==
    /\ []AnswersAsMap
    /\ [][hmCall'.op = "remove" =>
             /\ hmCall'.ret <=> hmModel' # hmModel
             /\ hmCall'.ret <=> hashMap'.count = hashMap.count - 1]_vars

\* a present key that is found past the tombstone in its home slot, in the
\* table that a rehash built
C13_Witness ==
    /\ Len(hashMap.buckets) = 16
    /\ hmCall.op = "remove"
    /\ hmCall.ret
    /\ \E key \in DOMAIN hmModel :
          /\ At(hashMap.buckets, indexFor(hashMap, key)).state = "Deleted"
          /\ findBucket(hashMap, key) # indexFor(hashMap, key)
          /\ getResult(hashMap, key).value = hmModel[key]

-----------------------------------------------------------------------------
(* HashMap constructed with an explicit initialCapacity; put and remove of *)
(* NumLoadKeys keys 0, 1, .. that have distinct home slots.                *)

NumLoadKeys == 6

LoadKeys == 0..(NumLoadKeys - 1)

\* arguments given to HashMap(initialCapacity): the default 8, and 10
LoadCapacities == {8, 10}

InitHashMapLoad ==
    /\ \E initialCapacity \in LoadCapacities : hashMap = HashMapNew(initialCapacity)
    /\ hmCall = NoCall
    /\ hmModel = <<>>
    /\ HeapIdle /\ QueueIdle /\ StackIdle /\ ListIdle /\ BstIdle /\ GraphIdle /\ SearchIdle

NextHashMapLoad ==
    \/ \E key \in LoadKeys : put(key, ValueNames[1])
    \/ \E key \in LoadKeys : remove(key)
    \/ size

SpecHashMapLoad == InitHashMapLoad /\ [][NextHashMapLoad]_vars

LoadFactorBelowSixty == hashMap.count * 10 < Len(hashMap.buckets) * 6

\* a put that would take (count + 1) / capacity above 0.6 first rehashes into
\* twice the capacity
RehashDoubles ==
    (hmCall'.op = "put" /\ (hashMap.count + 1) * 10 > Len(hashMap.buckets) * 6)
        => Len(hashMap'.buckets) = 2 * Len(hashMap.buckets)

\* C14: after every put and every remove count / buckets.size() is below 0.6
\* (count * 10 < buckets.size() * 6), and a put that would push
\* (count + 1) / capacity above 0.6 first rehashes into twice the capacity.
C14_LoadFactorUnderSixty ==
    /\ []LoadFactorBelowSixty
    /\ [][RehashDoubles]_vars

\* C15: the values dequeue has returned are a prefix of the values enqueued,
\* front returns the oldest value not yet dequeued, and size is the number of
\* enqueues minus the number of successful dequeues.
C15_QueueIsFifo ==
    /\ Len(qOut) <= Len(qIn)
    /\ qOut = SubSeq(qIn, 1, Len(qOut))
    /\ (qCall.op = "front" /\ ~qCall.thrown => qCall.ret = qIn[Len(qOut) + 1])
    /\ (qCall.op = "size" => qCall.ret = Len(qIn) - Len(qOut))
    /\ queue.count = Len(qIn) - Len(qOut)

\* a dequeue after the buffer grew from 2 to 4 slots while it held the second
\* and third value enqueued (the first already dequeued, so the ring had
\* wrapped and headIndex was 1)
C15_Witness ==
    /\ qCall.op = "dequeue"
    /\ ~qCall.thrown
    /\ queue.capacity = 4
    /\ Len(qIn) = 4
    /\ qOut = <<qIn[1], qIn[2]>>
    /\ queue.data = <<qIn[2], qIn[3], qIn[4], Uninit>>
    /\ queue.headIndex = 1
    /\ qIn[1] # qIn[2]
    /\ qIn[2] # qIn[3]

\* C16: pop returns the most recently pushed value not yet popped, peek
\* returns that value and leaves the stack as it was, and size is the number
\* of pushes minus the number of successful pops.
C16_StackIsLifo ==
    [][/\ (sCall'.op = "pop" /\ ~sCall'.thrown =>
              /\ sModel # <<>>
              /\ sCall'.ret = sModel[Len(sModel)])
       /\ (sCall'.op = "peek" /\ ~sCall'.thrown =>
              /\ sModel # <<>>
              /\ sCall'.ret = sModel[Len(sModel)]
              /\ stack' = stack)
       /\ (sCall'.op = "size" => sCall'.ret = sPushes - sPops)
       /\ stack'.topIndex = sPushes' - sPops']_vars

\* a pop that returns a value copied by grow(), after the value pushed on top
\* of it was popped
C16_Witness ==
    /\ sCall.op = "pop"
    /\ ~sCall.thrown
    /\ stack.capacity = 4
    /\ sPushes = 3
    /\ sPops = 2
    /\ Len(sModel) = 1
    /\ sCall.ret = At(stack.data, 1)
    /\ sCall.ret # At(stack.data, 0)

\* C17: Queue::dequeue and Queue::front on a queue with count 0, and
\* Stack::pop and Stack::peek on a stack with topIndex 0, throw and leave
\* every field of the object unchanged.
C17_EmptyContainerErrors ==
    [][/\ (qCall'.op \in {"dequeue", "front"} /\ queue.count = 0 =>
              /\ qCall'.thrown
              /\ queue' = queue)
       /\ (sCall'.op \in {"pop", "peek"} /\ stack.topIndex = 0 =>
              /\ sCall'.thrown
              /\ stack' = stack)
       /\ (qCall'.op # "none" /\ qCall'.thrown => queue' = queue /\ queue.count = 0)
       /\ (sCall'.op # "none" /\ sCall'.thrown => stack' = stack /\ stack.topIndex = 0)]_vars

\* a dequeue that threw on a queue emptied by dequeues, its ring indices away
\* from 0
C17_Witness ==
    /\ qCall.op = "dequeue"
    /\ qCall.thrown
    /\ queue.count = 0
    /\ queue.headIndex # 0
    /\ Len(qOut) >= 1

\* the addresses met from head on along next, at most fuel of them
RECURSIVE ChainFrom(_, _, _)
ChainFrom(nodes, current, fuel) ==
    IF current = nullptr \/ current \notin DOMAIN nodes \/ fuel = 0 THEN <<>>
    ELSE <<current>> \o ChainFrom(nodes, nodes[current].next, fuel - 1)

ListChain(l, nodes) == ChainFrom(nodes, l.head, MaxListNodes + 1)

\* the values of the list from head to tail
ListValues(l, nodes) ==
    LET chain == ListChain(l, nodes) IN [i \in 1..Len(chain) |-> nodes[chain[i]].value]

ListWellFormed(l, nodes) ==
    LET chain == ListChain(l, nodes) IN
    /\ l.head = nullptr <=> l.length = 0
    /\ l.tail = nullptr <=> l.length = 0
    /\ Len(chain) = l.length
    /\ Cardinality(Range(chain)) = Len(chain)
    /\ l.length # 0 =>
          /\ l.tail = chain[Len(chain)]
          /\ nodes[l.tail].next = nullptr

\* C18: after any sequence of pushFront, pushBack, insertAfter, remove and
\* clear, head and tail are null exactly when length is 0; otherwise tail is
\* the last node reachable from head, tail->next is null and length is the
\* number of nodes reachable from head; so every pushBack appends at the end.
C18_ListStructure ==
    /\ [](ListWellFormed(list, listNodes))
    /\ [][lCall'.op = "pushBack" /\ <<list, listNodes>>' # <<list, listNodes>> =>
             \E value \in Values :
                ListValues(list', listNodes') = Append(ListValues(list, listNodes), value)]_vars

\* a remove that deleted the tail node of a list of three nodes
C18_Witness ==
    /\ lCall.op = "remove"
    /\ lCall.ret
    /\ lCall.atTail
    /\ list.length = 2
    /\ list.head # list.tail

\* the keys of the nodes of the tree, in order
RECURSIVE InOrderNodes(_, _)
InOrderNodes(nodes, node) ==
    IF node = nullptr THEN <<>>
    ELSE InOrderNodes(nodes, nodes[node].left) \o <<node>> \o InOrderNodes(nodes, nodes[node].right)

\* the multiset model written out: each key in increasing order, as often as it occurs
RECURSIVE ExpandFrom(_, _)
ExpandFrom(model, key) ==
    IF key > MaxKey THEN <<>>
    ELSE [i \in 1..Occurs(model, key) |-> key] \o ExpandFrom(model, key + 1)

\* C19: after any sequence of insert, eraseOne and eraseAll the keys are in
\* strict BST order, every node has count >= 1, and the in-order expansion
\* equals the abstract multiset of the calls.
C19_BstIsAMultiset ==
    LET order == InOrderNodes(bstNodes, root) IN
    /\ \A i \in 1..Len(order) - 1 : bstNodes[order[i]].key < bstNodes[order[i + 1]].key
    /\ \A i \in 1..Len(order) : bstNodes[order[i]].count >= 1
    /\ printInOrderRecursive(bstNodes, root) = ExpandFrom(bstModel, 1)
    /\ Range(order) = DOMAIN bstNodes

\* an eraseOne that overwrote the root, a node with two children, by its
\* in-order successor 3, which held two occurrences
C19_Witness ==
    /\ bstCall.op = "eraseOne"
    /\ bstCall.replaced
    /\ root # nullptr
    /\ bstNodes[root].count = 2
    /\ bstNodes[root].left # nullptr
    /\ bstNodes[root].right # nullptr
    /\ bstNodes[bstNodes[root].right].left = nullptr
    /\ bstNodes[bstNodes[root].right].right = nullptr
    /\ bstNodes[bstNodes[root].left].left = nullptr
    /\ bstNodes[bstNodes[root].left].right = nullptr
    /\ Cardinality(DOMAIN bstNodes) = 3
    /\ bstNodes[root].key = 3

\* the vertices at most n edges away from the vertex start
RECURSIVE Ball(_, _, _)
Ball(adj, start, n) ==
    IF n = 0 THEN {start}
    ELSE LET inner == Ball(adj, start, n - 1) IN
         inner \cup UNION {Range(Entry(adj, v)) : v \in inner}

ReachableFrom(adj, start) == Ball(adj, start, NumVertices)

\* the edge distance of the reachable vertex v from start
Distance(adj, start, v) ==
    CHOOSE n \in 0..NumVertices :
        /\ v \in Ball(adj, start, n)
        /\ \A m \in 0..n - 1 : v \notin Ball(adj, start, m)

TraversalRunning == trav.op # "none" /\ ~trav.returns

TraversalReturned == trav.op # "none" /\ trav.returns

TraversalOutputRight ==
    trav.op # "none" =>
       /\ \A i \in 1..Len(trav.out), j \in 1..Len(trav.out) :
             i # j => trav.out[i] # trav.out[j]
       /\ Range(trav.out) \subseteq ReachableFrom(adjacency, trav.start)
       /\ trav.returns => Range(trav.out) = ReachableFrom(adjacency, trav.start)
       /\ trav.op = "bfs" =>
             \A i \in 1..Len(trav.out) - 1 :
                Distance(adjacency, trav.start, trav.out[i])
                   <= Distance(adjacency, trav.start, trav.out[i + 1])

\* C20: depthFirstSearch and breadthFirstSearch terminate, and each outputs
\* every vertex reachable from start exactly once and no other vertex;
\* breadthFirstSearch outputs the vertices in non-decreasing order of their
\* distance from start.
C20_TraversalsVisitReachableOnce ==
    /\ []TraversalOutputRight
    /\ (TraversalRunning ~> TraversalReturned)

\* a breadthFirstSearch from 1 that returned on the tree 1-2, 1-3, 3-4: vertex 2
\* (one edge away, enqueued before 3) is output before vertex 4 (two edges
\* away, enqueued while 2 was still waiting), as a queue orders them and a
\* stack would not
C20_Witness ==
    /\ trav.op = "bfs"
    /\ trav.returns
    /\ trav.start = 1
    /\ trav.out = <<1, 2, 3, 4>>
    /\ DOMAIN adjacency = {1, 2, 3, 4}
    /\ adjacency[1] = <<2, 3>>
    /\ adjacency[2] = <<1>>
    /\ adjacency[3] = <<1, 4>>
    /\ adjacency[4] = <<3>>
    /\ Distance(adjacency, 1, 2) = 1
    /\ Distance(adjacency, 1, 4) = 2

\* the result binary search owes on d for target
RightIndex(d, target, index) ==
    IF \E i \in 1..Len(d) : d[i] = target
    THEN index \in 0..Len(d) - 1 /\ At(d, index) = target
    ELSE index = -1

\* C21: on every sorted vector, the empty one included, and for every
\* target, binarySearchIterative returns an index holding the target when it
\* occurs and -1 when it does not, and binarySearchRecursive called with
\* left = 0 and right = size - 1 returns the same result.
C21_BinarySearch ==
    /\ bsCall.op \in {"iterative", "recursive"} =>
          RightIndex(sorted, bsCall.target, bsCall.ret)
    /\ \A target \in Targets :
          /\ RightIndex(sorted, target, binarySearchIterative(sorted, target))
          /\ binarySearchRecursive(sorted, target, 0, Len(sorted) - 1)
                = binarySearchIterative(sorted, target)

\* a recursive search that found its target in the last slot of a vector
\* with a repeated value, after discarding the left part twice
C21_Witness ==
    /\ bsCall.op = "recursive"
    /\ sorted = <<1, 2, 2, 3>>
    /\ bsCall.target = 3
    /\ bsCall.ret = 3

\* C22: an insert into a heap that satisfies the heap property leaves a heap
\* that satisfies it, so every heap built from the empty heap by inserts alone
\* satisfies the heap property.
C22_InsertPreservesHeapProperty ==
    /\ [](nExt = 0 => HeapProperty(data))
    /\ [][op' = "insert" => HeapProperty(data') \/ ~HeapProperty(data)]_vars

\* eight inserts, a single 1 among seven 3s: wherever the 1 was appended
\* below the root, bubbleUp carried it to the root
C22_Witness ==
    /\ op = "insert"
    /\ nExt = 0
    /\ nIns = 8
    /\ data = <<1, 3, 3, 3, 3, 3, 3, 3>>

\* C23: extractMin on a non-empty heap that satisfies the heap property
\* returns the minimum held value and leaves a heap that satisfies the heap
\* property.
C23_ExtractMinPreservesHeapProperty ==
    [][HeapProperty(data) /\ data # <<>> /\ op' = "extractMin" =>
          /\ ~thrown'
          /\ ret' = MinOfSeq(data)
          /\ HeapProperty(data')]_vars

\* C24: extractMax on a non-empty heap that satisfies the heap property
\* returns the maximum held value and leaves a heap that satisfies the heap
\* property.
C24_ExtractMaxPreservesHeapProperty ==
    [][HeapProperty(data) /\ data # <<>> /\ op' = "extractMax" =>
          /\ ~thrown'
          /\ ret' = MaxOfSeq(data)
          /\ HeapProperty(data')]_vars

\* the existing children and grandchildren of index i in a heap of size n
Family(n, i) ==
    {j \in 1..n - 1 : parent(j) = i \/ (j >= 3 /\ grandparent(j) = i)}

\* C25: for every index i, minDescendant(i) (maxDescendant(i)) returns an
\* index whose value is the minimum (maximum) over all existing children and
\* grandchildren of i, and returns i only when i has no children.
C25_WindowComplete ==
    \A i \in 0..Len(data) - 1 :
        LET family == Family(Len(data), i)
            lo     == minDescendant(data, i)
            hi     == maxDescendant(data, i)
        IN  /\ lo = i <=> family = {}
            /\ hi = i <=> family = {}
            /\ family # {} =>
                  /\ \A j \in family : At(data, lo) <= At(data, j)
                  /\ \A j \in family : At(data, hi) >= At(data, j)

\* C26: for every index i, the index returned by minDescendant(i) and
\* maxDescendant(i) is i, a child of i or a grandchild of i, so the repair
\* of an extraction changes no slot outside the subtree of the slot it
\* starts from.
C26_WindowSound ==
    /\ [](\A i \in 0..Len(data) - 1 :
             /\ minDescendant(data, i) \in {i} \cup Family(Len(data), i)
             /\ maxDescendant(data, i) \in {i} \cup Family(Len(data), i))
    /\ [][op' = "extractMax" /\ Len(data) >= 2 =>
             LET maxIndex == IF Len(data) > 2 /\ At(data, 2) > At(data, 1) THEN 2 ELSE 1
                 popped   == ReplaceWithBackAndPop(data, maxIndex)
             IN  \A j \in 0..Len(popped) - 1 :
                    At(data', j) # At(popped, j) =>
                       j = maxIndex \/ IsDescendant(j, maxIndex)]_vars

-----------------------------------------------------------------------------
(* HashMap as main constructs it, with put and remove of the keys 0 .. 7:  *)
(* every bucket of the initial table is the home of one key.               *)

\* the default argument of HashMap(std::size_t initialCapacity = 8)
DefaultCapacity == 8

HomeKeys == 0..(DefaultCapacity - 1)

NextHashMapHomes ==
    \/ \E key \in HomeKeys : put(key, ValueNames[1])
    \/ \E key \in HomeKeys : remove(key)

SpecHashMapHomes == InitHashMap /\ [][NextHashMapHomes]_vars

\* C27: every put returns: whenever insertInternal runs, its probing loop
\* reaches an Empty bucket or a bucket holding the key; the table always
\* holds at least one Empty bucket.
C27_PutTerminates ==
    /\ hmCall.op = "put" => hmCall.returns
    /\ \E i \in 1..Len(hashMap.buckets) : hashMap.buckets[i].state = "Empty"

\* C28: on a heap of at least two elements extractMax returns data[1] and
\* overwrites slot 1, unless slot 2 exists and data[2] > data[1] strictly,
\* when it returns data[2] and overwrites slot 2; the chosen slot receives
\* the former last element, and trickleDown runs on it only if the slot
\* index is smaller than the new size.
C28_ExtractMaxSelection ==
    [][op' = "extractMax" /\ Len(data) >= 2 =>
          LET chosen   == IF Len(data) >= 3 /\ At(data, 2) > At(data, 1) THEN 2 ELSE 1
              newSize  == Len(data) - 1
              replaced == [i \in 1..newSize |->
                              IF i = chosen + 1 THEN data[Len(data)] ELSE data[i]]
          IN  /\ ~thrown'
              /\ ret' = At(data, chosen)
              /\ data' = IF chosen < newSize THEN trickleDown(replaced, chosen)
                                             ELSE replaced]_vars

\* extractMax on [1,3,3,1], a tie between slots 1 and 2: slot 1 was chosen
\* and received the former last element
C28_Witness ==
    /\ op = "extractMax"
    /\ ~thrown
    /\ ret = 3
    /\ data = <<1, 1, 3>>
    /\ nIns = 4
    /\ nExt = 1


\* C29: on a heap of exactly one element, extractMin and extractMax both
\* return that element without an error and leave the heap empty; on the
\* empty heap so left, empty() answers true and getMin, getMax, extractMin
\* and extractMax each fail with the empty-heap error and leave it empty.
C29_SingleElementExtraction ==
    [][ /\ (Len(data) = 1 /\ op' \in {"extractMin", "extractMax"}
              => ~thrown' /\ ret' = At(data, 0) /\ data' = <<>>)
        /\ (data = <<>> /\ op' \in Partial => thrown' /\ data' = <<>>)
        /\ (data = <<>> /\ op' = "empty" => ~thrown' /\ ret' = TRUE) ]_vars

C29_Witness ==
    /\ op = "extractMin"
    /\ ~thrown
    /\ ret = 2
    /\ data = <<>>
    /\ nIns = 1
    /\ nExt = 1


\* the array after the swaps of tr, made in order
RECURSIVE ApplySwaps(_, _)
ApplySwaps(d, tr) ==
    IF tr = <<>> THEN d
    ELSE ApplySwaps(Swap(d, tr[1][1], tr[1][2]), Tail(tr))

\* value v at slot a breaks the rule of the level of a against slot b above
\* it: smaller on a min level, greater on a max level
Breaks(d, a, b) ==
    IF isMinLevel(a) THEN At(d, a) < At(d, b) ELSE At(d, a) > At(d, b)

\* The step structure of bubbleUp(i) on d0, stated over its swaps:
\*  - the swap with the parent p is made exactly when the value at i breaks
\*    the rule of p's level, and then it is the first swap;
\*  - the remaining swaps form one chain that starts at p after a parent swap
\*    and at i otherwise, each from the current slot (3 or deeper) to its
\*    grandparent, two levels up, made because the climbing value breaks the
\*    rule of the level the chain started on;
\*  - the chain ends where the slot has no grandparent or the climbing value
\*    no longer breaks that rule;
\*  - at most one swap is with a parent.
StepStructure(d0, i) ==
    LET tr       == bubbleUpSwaps(d0, i)
        p        == parent(i)
        violates == \/ ~isMinLevel(p) /\ At(d0, i) > At(d0, p)
                    \/ isMinLevel(p) /\ At(d0, i) < At(d0, p)
        start    == IF violates THEN p ELSE i
        skip     == IF violates THEN 1 ELSE 0
        chain    == SubSeq(tr, skip + 1, Len(tr))
        from(k)  == IF k = 1 THEN start ELSE chain[k - 1][2]
        before(k) == ApplySwaps(d0, SubSeq(tr, 1, skip + k - 1))
        last     == from(Len(chain) + 1)
        final    == ApplySwaps(d0, tr)
    IN  IF i = 0 THEN tr = <<>>
        ELSE /\ violates <=> (tr # <<>> /\ tr[1] = <<i, p>>)
             /\ \A k \in 1..Len(chain) :
                   /\ chain[k][1] = from(k)
                   /\ chain[k][1] >= 3
                   /\ chain[k][2] = grandparent(chain[k][1])
                   /\ depthOf(chain[k][2]) = depthOf(chain[k][1]) - 2
                   /\ isMinLevel(chain[k][1]) = isMinLevel(start)
                   /\ At(before(k), chain[k][1]) = At(d0, i)
                   /\ Breaks(before(k), chain[k][1], chain[k][2])
             /\ At(final, last) = At(d0, i)
             /\ last < 3 \/ ~Breaks(final, last, grandparent(last))
             /\ Cardinality({k \in 1..Len(tr) : tr[k][2] = parent(tr[k][1])}) <= 1

\* C30: every insert appends the value and runs bubbleUp on the last slot;
\* the swaps bubbleUp makes have the step structure above (one swap with the
\* parent exactly when the new value breaks the parent's level rule, then
\* only swaps with the grandparent of the current slot, along the level rule
\* of the slot the climb continues from), and the array the insert leaves is
\* the appended array with exactly those swaps applied.
C30_BubbleUpStepStructure ==
    [][op' = "insert" =>
          LET value == CHOOSE v \in Values : held' = held (+) SetToBag({v})
              d0    == Append(data, value)
          IN  /\ StepStructure(d0, Len(data))
              /\ data' = ApplySwaps(d0, bubbleUpSwaps(d0, Len(data)))]_vars

\* the insert of 3 into the layered heap of 15 slots holding 1 on the min
\* levels and 2 on the max levels: slot 15 swaps with its parent 7, and from
\* there with the grandparent 1 of slot 7.  Slots 1 and 2 differ afterwards,
\* so no other insert into a layered heap leaves this array.
C30_Witness ==
    /\ op = "insert"
    /\ nIns = DeepLen + 1
    /\ nExt = 0
    /\ data = <<1, 3, 2, 1, 1, 1, 1, 2, 2, 2, 2, 2, 2, 2, 2, 2>>
    /\ bubbleUpSwaps(<<1, 2, 2, 1, 1, 1, 1, 2, 2, 2, 2, 2, 2, 2, 2, 3>>, 15)
          = <<<<15, 7>>, <<7, 1>>>>


\* depth of the last slot of d: the height of the tree d lays out
Height(d) == IF d = <<>> THEN 0 ELSE depthOf(Len(d) - 1)

\* the loop iterations of a trickle-down pass: every iteration but the last
\* goes on, the next one runs on the slot m of the one before, and that slot
\* lies strictly deeper; the iterations that go on are at most the height
Descends(log, d) ==
    /\ log # <<>>
    /\ \A k \in 1..Len(log) :
          /\ log[k].continues <=> k < Len(log)
          /\ k < Len(log) =>
                /\ log[k + 1].index = log[k].m
                /\ depthOf(log[k + 1].index) > depthOf(log[k].index)
    /\ Len(log) - 1 <= Height(d)

\* the swaps of a bubble-up pass: each goes on from the slot the one before
\* reached, to a slot strictly nearer the root; they are at most the height
Climbs(tr, d) ==
    /\ \A k \in 1..Len(tr) :
          /\ depthOf(tr[k][2]) < depthOf(tr[k][1])
          /\ k < Len(tr) => tr[k + 1][1] = tr[k][2]
    /\ Len(tr) <= Height(d)

\* C31: every insert, extractMin and extractMax completes: the repair pass
\* it runs is a finite sequence of iterations.  The iterations of
\* trickleDownMin/trickleDownMax that go on move the repaired index to a
\* strictly deeper slot, the swaps of bubbleUp move it strictly nearer the
\* root, their number is at most the height of the tree, and the array the
\* operation leaves is the one the last iteration leaves.
C31_RepairPassesTerminate ==
    [][ /\ op' = "insert" =>
              LET value == CHOOSE v \in Values : held' = held (+) SetToBag({v})
                  d0    == Append(data, value)
                  tr    == bubbleUpSwaps(d0, Len(data))
              IN  Climbs(tr, d0) /\ data' = ApplySwaps(d0, tr)
        /\ op' = "extractMin" /\ Len(data) >= 2 =>
              LET popped == ReplaceWithBackAndPop(data, 0)
                  log    == trickleDownLog(popped, 0)
              IN  Descends(log, popped) /\ data' = log[Len(log)].out
        /\ op' = "extractMax" /\ Len(data) >= 3 =>
              LET chosen == IF At(data, 2) > At(data, 1) THEN 2 ELSE 1
                  popped == ReplaceWithBackAndPop(data, chosen)
                  log    == trickleDownLog(popped, chosen)
              IN  Descends(log, popped) /\ data' = log[Len(log)].out ]_vars

\* extractMin on <<1,3,3,1,1,1,1,3,3,3,3,3,3,3,3,2,3>>: the 3 moved to the
\* root goes down to slot 3 and from there to slot 15, two iterations that
\* go on and a third that ends the pass
C31_Witness ==
    /\ op = "extractMin"
    /\ ~thrown
    /\ ret = 1
    /\ nIns = DeepLen + 2
    /\ nExt = 1
    /\ data = <<1, 3, 3, 2, 1, 1, 1, 3, 3, 3, 3, 3, 3, 3, 3, 3>>
    /\ LET log == trickleDownLog(<<3, 3, 3, 1, 1, 1, 1, 3, 3, 3, 3, 3, 3, 3, 3, 2>>, 0)
       IN  /\ Len(log) = 3
           /\ <<log[1].index, log[2].index, log[3].index>> = <<0, 3, 15>>
           /\ log[3].out = data


\* the largest index whose level is computed: 62 closes the sixth level
MaxIndex == 62

\* floor(log2(n)) for n >= 1, by halving
RECURSIVE FloorLog2(_)
FloorLog2(n) == IF n < 2 THEN 0 ELSE 1 + FloorLog2(n \div 2)

EvenDepth(i) == FloorLog2(i + 1) % 2 = 0

\* trickleDown(i) on d gives what the pass of the level of i gives
Dispatches(d, i) ==
    trickleDown(d, i) = IF EvenDepth(i) THEN trickleDownMin(d, i)
                        ELSE trickleDownMax(d, i)

\* isMinLevel agrees with the parity of floor(log2(i + 1)) up to MaxIndex
LevelsAgree == \A i \in 0..MaxIndex : isMinLevel(i) <=> EvenDepth(i)

\* the dispatch on every slot of every layered heap of DeepLen slots
DeepDispatch == \A d \in DeepHeaps : \A i \in 0..Len(d) - 1 : Dispatches(d, i)

\* C32: isMinLevel(i) is true exactly when floor(log2(i + 1)) is even, for
\* every index up to MaxIndex; trickleDown(i) gives what trickleDownMin(i)
\* gives where that depth is even and what trickleDownMax(i) gives where it
\* is odd, on every slot of the layered heaps and on the slot every
\* extractMin (slot 0) and extractMax (slot 1 or 2) repairs, whose result is
\* the array the operation leaves.
C32_LevelDetermination ==
    /\ [](LevelsAgree /\ DeepDispatch)
    /\ [][ /\ op' = "extractMin" /\ Len(data) >= 2 =>
                 LET popped == ReplaceWithBackAndPop(data, 0)
                 IN  Dispatches(popped, 0) /\ data' = trickleDownMin(popped, 0)
           /\ op' = "extractMax" /\ Len(data) >= 3 =>
                 LET chosen == IF At(data, 2) > At(data, 1) THEN 2 ELSE 1
                     popped == ReplaceWithBackAndPop(data, chosen)
                 IN  Dispatches(popped, chosen) /\ data' = trickleDownMax(popped, chosen) ]_vars

\* extractMax on <<1,3,3,2,1>>: slot 1 takes the last element 1 and the max
\* pass lifts the 2 of slot 3 over it; the min pass would have left it
C32_Witness ==
    /\ op = "extractMax"
    /\ ~thrown
    /\ ret = 3
    /\ nIns = 5
    /\ nExt = 1
    /\ data = <<1, 2, 3, 1>>
    /\ trickleDown(<<1, 1, 3, 2>>, 1) = data
    /\ trickleDownMin(<<1, 1, 3, 2>>, 1) # data


\* an element access lies inside the vector as it is at that moment; parent
\* is called on 1 or more and grandparent on 3 or more
SafeAccess(a) ==
    /\ a.kind = "data" => 0 <= a.arg /\ a.arg < a.size
    /\ a.kind = "parent" => a.arg >= 1
    /\ a.kind = "grandparent" => a.arg >= 3

\* the value an insert step has inserted: the new array is bubbleUp of the
\* old one with that value appended
InsertedValue == CHOOSE v \in Values : data' = bubbleUp(Append(data, v), Len(data))

\* the accesses of the operation a step has made, from the array before it
StepAccesses ==
    IF op' = "insert"
    THEN insertAccesses(data, InsertedValue)
    ELSE IF op' = "getMin" THEN getMinAccesses(data)
    ELSE IF op' = "getMax" THEN getMaxAccesses(data)
    ELSE IF op' = "extractMin" THEN extractMinAccesses(data)
    ELSE IF op' = "extractMax" THEN extractMaxAccesses(data)
    ELSE {}

\* C33: in every operation of every run, each element access data[i] has
\* 0 <= i < size for the size the vector has at that access, parent is never
\* called on 0 and grandparent never on an index below 3, so index - 1
\* never wraps around.
C33_IndexSafety == [][\A a \in StepAccesses : SafeAccess(a)]_vars

\* extractMin on <<1,3,3,1,1,1,1,3,3,3,3,3,3,3,3,2,3>>: the pass reads the
\* scan window 7..15 of slot 3, cut at the last slot 15 of the 16 left, and
\* calls parent on the grandchild 15
C33_Witness ==
    /\ op = "extractMin"
    /\ ~thrown
    /\ ret = 1
    /\ nIns = DeepLen + 2
    /\ nExt = 1
    /\ Len(data) = 16
    /\ At(data, 3) = 2
    /\ At(data, 15) = 3
    /\ LET acc == extractMinAccesses(<<1, 3, 3, 1, 1, 1, 1, 3, 3, 3, 3, 3, 3, 3, 3, 2, 3>>)
       IN  /\ Access(15, 16) \in acc
           /\ Access(16, 17) \in acc
           /\ ParentCall(15) \in acc


\* C34: on a non-empty heap, an extractMin called right after a getMin
\* returns the value that getMin returned, and an extractMax called right
\* after a getMax returns the value that getMax returned; neither raises the
\* empty-heap error.  getMin and getMax can be called in every state and
\* leave the heap as it is, so this covers every reachable non-empty heap.
C34_PeekExtractAgreement ==
    [][ /\ (op = "getMin" /\ data # <<>> /\ op' = "extractMin"
              => ~thrown /\ ~thrown' /\ ret' = ret)
        /\ (op = "getMax" /\ data # <<>> /\ op' = "extractMax"
              => ~thrown /\ ~thrown' /\ ret' = ret) ]_vars

\* extractMax on <<1,2,3,2>>, where slot 2 holds the maximum: it returns
\* the 3 that getMax returns there, and the last element 2 takes slot 2
C34_Witness ==
    /\ op = "extractMax"
    /\ ~thrown
    /\ ret = 3
    /\ nIns = 4
    /\ nExt = 1
    /\ data = <<1, 2, 2>>


\* the children of slot p that exist in an array of n slots
Children(p, n) == {c \in {2 * p + 1, 2 * p + 2} : c < n}

\* slot p keeps the rule of its level against its children in d
RulesChildren(d, p) ==
    \A c \in Children(p, Len(d)) :
        IF isMinLevel(p) THEN At(d, p) <= At(d, c) ELSE At(d, p) >= At(d, c)

\* an iteration e of a trickle-down pass that found a grandchild m: when the
\* value at m breaks the rule of index the two are swapped, and after that m
\* and parent(m) are swapped exactly when the value now at m breaks the rule
\* of parent(m); the loop goes on from m; otherwise nothing is swapped and
\* the pass stops
GrandchildStep(e) ==
    LET i  == e.index
        m  == e.m
        p  == parent(m)
        breaks == IF isMinLevel(i) THEN At(e.at, m) < At(e.at, i)
                  ELSE At(e.at, m) > At(e.at, i)
        d1 == Swap(e.at, m, i)
        inverted == IF isMinLevel(i) THEN At(d1, m) > At(d1, p)
                    ELSE At(d1, m) < At(d1, p)
    IN  e.grandchild =>
          /\ m >= 3 /\ grandparent(m) = i
          /\ e.swapped <=> breaks
          /\ e.continues <=> breaks
          /\ e.fixed <=> (breaks /\ inverted)
          /\ e.out = IF ~breaks THEN e.at
                     ELSE IF inverted THEN Swap(d1, m, p) ELSE d1

\* after an iteration that swapped with a grandchild m, parent(m) keeps the
\* rule of its level against both of its children
ParentRuleKept(e) ==
    e.grandchild /\ e.swapped => RulesChildren(e.out, parent(e.m))

\* the iterations of the pass an extraction step runs, from the array before
StepLog ==
    IF op' = "extractMin" /\ Len(data) >= 2
    THEN trickleDownLog(ReplaceWithBackAndPop(data, 0), 0)
    ELSE IF op' = "extractMax" /\ Len(data) >= 3
    THEN LET chosen == IF At(data, 2) > At(data, 1) THEN 2 ELSE 1
         IN  trickleDownLog(ReplaceWithBackAndPop(data, chosen), chosen)
    ELSE <<>>

\* C35: in every pass an extraction runs, an iteration of trickleDownMin
\* (resp. trickleDownMax) that found a grandchild m swaps it with index when
\* the value at m breaks the rule of index, then swaps m with parent(m)
\* exactly when data[m] > data[parent(m)] (resp. <), and goes on from m with
\* parent(m) keeping the rule of its level against both of its children;
\* when the value at m does not break the rule of index nothing is swapped
\* and the pass stops.
C35_GrandchildStep ==
    [][\A k \in 1..Len(StepLog) :
           GrandchildStep(StepLog[k]) /\ ParentRuleKept(StepLog[k])]_vars

\* the swaps of the grandchild step alone, without what they achieve
GrandchildSwapsAsStated ==
    [][\A k \in 1..Len(StepLog) : GrandchildStep(StepLog[k])]_vars

\* the parent rule is kept by every pass that starts from a heap satisfying
\* the heap property
ParentRuleKeptFromHeaps ==
    [][HeapProperty(data) => \A k \in 1..Len(StepLog) : ParentRuleKept(StepLog[k])]_vars

====
